---- MODULE Spec2Model ----
(***************************************************************************)
(* State-machine model of OpenSuperWhisper's background services.          *)
(*                                                                         *)
(*   Transcription Service  src/whisper/transcription_service.py           *)
(*   Themed UI worker       src/opensuperwhisper_gui_pyqt6.py              *)
(*   Audio Capture Engine   src/whisper/audio_recorder.py                  *)
(*                                                                         *)
(* Python threads interleave between statements, so every statement that   *)
(* reads or writes a shared field of a service is a step of its own.       *)
(***************************************************************************)
EXTENDS Integers, Sequences, FiniteSets, TLC

(***************************************************************************)
(* Bounds of the model.                                                    *)
(***************************************************************************)
\* number of transcription calls issued (each from a thread of its own)
MaxCallers == 2
\* number of model-load threads, the constructor's included
MaxLoads == 2

Callers == 1..MaxCallers
Loads == 1..MaxLoads

ModelNames == {"base", "small"}
Devices == {"cpu", "cuda"}
\* self.model = None
NoModel == [name |-> "none", device |-> "none"]
Kinds == {"async", "sync", "worker"}

VARIABLES
    \* ---- TranscriptionService fields
    model,                \* self.model: NoModel or the (name, device) it was loaded for
    model_name,           \* self.model_name
    device,               \* self.device
    is_loading,           \* self.is_loading
    is_transcribing,      \* self.is_transcribing
    progress,             \* self.progress (0.0 or 1.0)
    transcription_lock,   \* self.transcription_lock: 0 free, else the holder
    transcription_count,  \* self.transcription_count
    callbacks_set,        \* on_complete / on_error are bound (None after __init__)
    \* ---- threads calling into the service
    kind,                 \* entry point of call t
    tpc,                  \* position of call t
    outcome,              \* how call t ended
    fired,                \* on_complete + on_error invocations made for call t
    inFlightAtIssue,      \* a call was in flight when call t was issued
    invModel,             \* the model handed to transcribe() by call t
    \* ---- load threads
    lpc,                  \* position of load thread l
    lreq,                 \* arguments load thread l passed to load_model
    lerr,                 \* on_error invocations made by load thread l
    ts_last               \* last ChangeModel / ChangeDevice call and its return value

tsVars == <<model, model_name, device, is_loading, is_transcribing, progress,
            transcription_lock, transcription_count, callbacks_set,
            kind, tpc, outcome, fired, inFlightAtIssue, invModel,
            lpc, lreq, lerr, ts_last>>

VARIABLES
    \* ---- AudioRecorder fields
    audio_backend,            \* AUDIO_BACKEND, fixed when the module is imported
    is_recording,             \* self.is_recording
    current_recording_path,   \* self.current_recording_path: 0 is None, else the file of recording n
    audio_data,               \* len(self._audio_data)
    audio_stream,             \* self._audio_stream: "none" or "open"
    recording_thread,         \* self._recording_thread: 0 is None, else the thread
    \* ---- around the recorder
    rpc,                      \* position of the capture thread of recording n
    files,                    \* WAV files on disk: <<path, samples>>
    recordings_started,       \* recordings begun so far
    ar_pc,                    \* position of the thread calling start_recording
    ar_last,                  \* last recorder call and its return value
    stop_callbacks            \* what each call of on_recording_stop found, oldest first

recorderVars == <<audio_backend, is_recording, current_recording_path, audio_data,
                  audio_stream, recording_thread, rpc, files, recordings_started,
                  ar_pc, ar_last, stop_callbacks>>

VARIABLES
    \* ---- one chunk going through the per-chunk processing of the read loop
    chunk_frames,             \* frames read from the stream
    chunk_channels,           \* self._working_channels
    chunk_rate,               \* self._working_rate
    chunk_out                 \* len(audio_chunk) handed to _audio_data.extend; -1 before

chunkVars == <<chunk_frames, chunk_channels, chunk_rate, chunk_out>>

VARIABLES
    \* ---- GlobalHotkeyManager (src/whisper/hotkeys.py)
    PYNPUT_AVAILABLE,         \* module global, fixed when the module is imported
    hotkeys,                  \* self.hotkeys: name -> HotkeyConfig (or no entry)
    hotkey_order,             \* the names in self.hotkeys, in the order the dict holds them
    listener_mapping,         \* chord -> callback handed to the GlobalHotKeys in self.listener
    listener,                 \* self.listener: 0 is None, else the n-th GlobalHotKeys made
    is_running,               \* self.is_running
    listeners_created,        \* GlobalHotKeys objects constructed so far
    listeners_stopped,        \* listener.stop() calls so far
    listeners_running,        \* the GlobalHotKeys objects started and not stopped
    sl_pc,                    \* position of each thread inside start_listening
    hk_last                   \* last manager call, its arguments and return value

hotkeyVars == <<PYNPUT_AVAILABLE, hotkeys, hotkey_order, listener_mapping, listener, is_running, listeners_created,
                listeners_stopped, listeners_running, sl_pc, hk_last>>

VARIABLES
    \* ---- ConfigManager (src/whisper/config_manager.py)
    settings,                 \* self.settings
    config_file,              \* what self.config_file holds on disk
    backup_file,              \* what the backup path holds on disk
    cfg_last                  \* last store call, its argument and return value

configVars == <<settings, config_file, backup_file, cfg_last>>

VARIABLES
    \* ---- RecordingDatabase (src/whisper/database.py)
    recordings,               \* the rows of table recordings
    now,                      \* datetime.now(), in seconds
    db_last                   \* last database call, its arguments and results

databaseVars == <<recordings, now, db_last>>

VARIABLES
    \* ---- the clipboard (both main windows)
    pyperclip_importable,     \* import pyperclip succeeds
    win32clipboard_importable, \* import win32clipboard succeeds
    clipboard,                \* the text on the system clipboard
    clip_last                 \* last copy_to_clipboard call and its result

clipboardVars == <<pyperclip_importable, win32clipboard_importable, clipboard, clip_last>>

VARIABLES
    \* ---- the themed main window (src/opensuperwhisper_gui_pyqt6.py)
    transcription_queue,      \* self.transcription_queue
    current_transcription_index, \* self.current_transcription_index
    status_label,             \* the text of self.status_label
    window_is_transcribing,   \* self.is_transcribing of the window
    window_is_recording,      \* self.is_recording of the window
    transcription_worker,     \* self.transcription_worker, self.transcription_thread
    transcription_threads,    \* the QThreads that are running, and whether the
                              \* worker of each has emitted its result
    threads_started,          \* QThreads created so far
    worker_log,               \* every worker created so far: its file, its thread, whether it reported
    hotkey_thread,            \* where the hotkey listener's thread is in the
                              \* window's stop_recording
    events,                   \* slots queued on the UI thread's event loop
    drops,                    \* files, batches and recordings the user has asked for
    uuids,                    \* uuid4() values drawn so far
    window_visible,           \* the window is shown
    tray_icon_visible,        \* self.tray_icon exists and is shown
    really_close,             \* self._really_close
    model_check_timer,        \* self.model_check_timer: "active" or "stopped"
    record_button_enabled,    \* self.record_button.isEnabled()
    close_event,              \* what closeEvent did with the last close event
    close_events,             \* close events delivered so far
    app_quit                  \* QApplication.quit() was called

windowVars == <<transcription_queue, current_transcription_index, status_label,
                window_is_transcribing, window_is_recording, transcription_worker,
                transcription_threads, threads_started, worker_log, hotkey_thread, events, drops,
                uuids, window_visible, tray_icon_visible, really_close,
                model_check_timer, record_button_enabled, close_event, close_events, app_quit>>

VARIABLES
    \* ---- one capture thread of the read-loop interface opening its stream
    open_request,             \* the device index, the native rate, the device's answers
    open_result,              \* what the thread raised, tried, opened and recorded
    open_pc                   \* "entry" before the thread ran, "opened" after

openVars == <<open_request, open_result, open_pc>>

VARIABLES
    \* ---- playback of a recording by AudioRecorder
    is_playing,               \* self.is_playing
    current_playing_path,     \* self.current_playing_path: 0 is None, else the clip
    sd_playing,               \* the clip sounddevice is playing: 0 is none
    playback_threads,         \* pyaudio playback threads: clip |-> [pc, left]
    plays_started,            \* play_recording calls so far
    play_pc,                  \* position of the caller inside play_recording
    play_last                 \* last playback call and its return value

playbackVars == <<is_playing, current_playing_path, sd_playing, playback_threads,
                  plays_started, play_pc, play_last>>

VARIABLES
    \* ---- the lightweight main window (src/opensuperwhisper_gui.py)
    app_settings              \* self.settings of the window

applyVars == <<app_settings>>

vars == <<tsVars, recorderVars, chunkVars, hotkeyVars, configVars, databaseVars,
          clipboardVars, windowVars, openVars, playbackVars, applyVars>>

\* what the opening of the stream does not touch
outsideOpen == <<tsVars, recorderVars, chunkVars, hotkeyVars, configVars, databaseVars,
                 clipboardVars, windowVars, playbackVars, applyVars>>

\* what nothing in the themed main window touches
outsideWindow == <<tsVars, chunkVars, configVars, openVars, playbackVars, applyVars>>

\* what copy_to_clipboard does not touch
outsideClipboard == <<tsVars, recorderVars, chunkVars, hotkeyVars, configVars,
                      databaseVars, windowVars, openVars, playbackVars, applyVars>>

\* what no step of the RecordingDatabase touches
outsideDatabase ==
    <<tsVars, recorderVars, chunkVars, hotkeyVars, configVars, clipboardVars, windowVars, openVars, playbackVars, applyVars>>

\* what no step of the ConfigManager touches
outsideConfig ==
    <<tsVars, recorderVars, chunkVars, hotkeyVars, databaseVars, clipboardVars, windowVars, openVars, playbackVars, applyVars>>

\* what no step of the Transcription Service touches
outsideService ==
    <<recorderVars, chunkVars, hotkeyVars, configVars, databaseVars, clipboardVars, windowVars, openVars, playbackVars, applyVars>>

NoCall == [op |-> "none", ret |-> FALSE]

(***************************************************************************)
(* TranscriptionService.__init__: no model, flags clear, and the default   *)
(* model load already handed to a thread.  The device is the saved         *)
(* preference or the detected one.                                         *)
(***************************************************************************)
InitTS ==
    /\ model = NoModel
    /\ model_name = "base"
    /\ device \in Devices
    /\ is_loading = FALSE
    /\ is_transcribing = FALSE
    /\ progress = 0
    /\ transcription_lock = 0
    /\ transcription_count = 0
    /\ callbacks_set = FALSE
    /\ kind = [t \in Callers |-> "none"]
    /\ tpc = [t \in Callers |-> "idle"]
    /\ outcome = [t \in Callers |-> "none"]
    /\ fired = [t \in Callers |-> 0]
    /\ inFlightAtIssue = [t \in Callers |-> FALSE]
    /\ invModel = [t \in Callers |-> NoModel]
    /\ lpc = [l \in Loads |-> IF l = 1 THEN "started" ELSE "unused"]
    /\ lreq = [l \in Loads |-> NoModel]
    /\ lerr = [l \in Loads |-> 0]
    /\ ts_last = NoCall

callerVars == <<kind, tpc, outcome, fired, inFlightAtIssue, invModel>>
loadVars == <<lpc, lreq, lerr>>

(***************************************************************************)
(* _load_model_async: the load thread.                                     *)
(***************************************************************************)
\* the lowest load thread not yet used
NextLoad == IF \E l \in Loads : lpc[l] = "unused"
            THEN CHOOSE l \in Loads : lpc[l] = "unused" /\ \A k \in Loads : k < l => lpc[k] # "unused"
            ELSE 0

\* threading.Thread(target=load_model_thread).start()
StartLoadThread(l) == lpc' = [lpc EXCEPT ![l] = "started"]

\* try: self.is_loading = True; load_model(name=self.model_name, device=self.device) is called
LoadBegin(l) ==
    /\ lpc[l] = "started"
    /\ is_loading' = TRUE
    /\ lreq' = [lreq EXCEPT ![l] = [name |-> model_name, device |-> device]]
    /\ lpc' = [lpc EXCEPT ![l] = "loading"]
    /\ UNCHANGED <<model, model_name, device, is_transcribing, progress, transcription_lock,
                   transcription_count, callbacks_set, callerVars, lerr, ts_last>>
    /\ UNCHANGED outsideService

\* load_model returns and self.model is assigned, or it raises and the except
\* clause calls on_error when one is bound
LoadReturn(l, ok) ==
    /\ lpc[l] = "loading"
    /\ model' = IF ok THEN lreq[l] ELSE model
    /\ lerr' = [lerr EXCEPT ![l] = IF ~ok /\ callbacks_set THEN @ + 1 ELSE @]
    /\ lreq' = [lreq EXCEPT ![l] = NoModel]
    /\ lpc' = [lpc EXCEPT ![l] = "finally"]
    /\ UNCHANGED <<model_name, device, is_loading, is_transcribing, progress, transcription_lock,
                   transcription_count, callbacks_set, callerVars, ts_last>>
    /\ UNCHANGED outsideService

\* finally: self.is_loading = False
LoadFinally(l) ==
    /\ lpc[l] = "finally"
    /\ is_loading' = FALSE
    /\ lpc' = [lpc EXCEPT ![l] = "done"]
    /\ UNCHANGED <<model, model_name, device, is_transcribing, progress, transcription_lock,
                   transcription_count, callbacks_set, callerVars, lreq, lerr, ts_last>>
    /\ UNCHANGED outsideService

(***************************************************************************)
(* change_model / change_device / cancel_transcription, and the            *)
(* lightweight UI binding the callbacks.                                   *)
(***************************************************************************)
\* the guard left out: a change is accepted during a transcription
ChangeRefusedNever == FALSE

\* if self.is_transcribing: return False
ChangeRefused == is_transcribing

change_model(name) ==
    /\ NextLoad # 0
    /\ IF ChangeRefused
       THEN /\ ts_last' = [op |-> "change_model", ret |-> FALSE]
            /\ UNCHANGED <<model, model_name, lpc>>
       ELSE IF name = model_name /\ model # NoModel
       THEN /\ ts_last' = [op |-> "change_model", ret |-> TRUE]
            /\ UNCHANGED <<model, model_name, lpc>>
       ELSE /\ model_name' = name
            /\ model' = NoModel
            /\ StartLoadThread(NextLoad)
            /\ ts_last' = [op |-> "change_model", ret |-> TRUE]
    /\ UNCHANGED <<device, is_loading, is_transcribing, progress, transcription_lock,
                   transcription_count, callbacks_set, callerVars, lreq, lerr>>
    /\ UNCHANGED outsideService

change_device(dev) ==
    /\ NextLoad # 0
    /\ IF ChangeRefused
       THEN /\ ts_last' = [op |-> "change_device", ret |-> FALSE]
            /\ UNCHANGED <<model, device, lpc>>
       ELSE IF dev = device /\ model # NoModel
       THEN /\ ts_last' = [op |-> "change_device", ret |-> TRUE]
            /\ UNCHANGED <<model, device, lpc>>
       ELSE /\ model' = NoModel
            /\ device' = dev
            /\ StartLoadThread(NextLoad)
            /\ ts_last' = [op |-> "change_device", ret |-> TRUE]
    /\ UNCHANGED <<model_name, is_loading, is_transcribing, progress, transcription_lock,
                   transcription_count, callbacks_set, callerVars, lreq, lerr>>
    /\ UNCHANGED outsideService

\* current_task is never assigned, so only the flag and the progress change
cancel_transcription ==
    /\ is_transcribing
    /\ is_transcribing' = FALSE
    /\ progress' = 0
    /\ UNCHANGED <<model, model_name, device, is_loading, transcription_lock,
                   transcription_count, callbacks_set, callerVars, loadVars, ts_last>>
    /\ UNCHANGED outsideService

\* OpenSuperWhisperGUI._setup_callbacks, run by the constructor of the
\* lightweight UI before any transcription can be requested
SetupCallbacks ==
    /\ ~callbacks_set
    /\ \A t \in Callers : tpc[t] = "idle"
    /\ callbacks_set' = TRUE
    /\ UNCHANGED <<model, model_name, device, is_loading, is_transcribing, progress,
                   transcription_lock, transcription_count, callerVars, loadVars, ts_last>>
    /\ UNCHANGED outsideService

(***************************************************************************)
(* A transcription call: transcribe_audio_sync, transcribe_audio_async,    *)
(* or the themed UI's TranscriptionWorker._transcribe_directly.            *)
(***************************************************************************)
\* call u passed the entry checks of transcribe_audio_async and has not returned
InFlight(u) ==
    /\ kind[u] \in {"async", "sync"}
    /\ tpc[u] \in {"set_flag", "acquire", "invoking", "ret_ok", "ret_err", "finally"}

\* if self.is_transcribing: raise RuntimeError("Already transcribing")
\* if self.model is None: raise RuntimeError("Model not loaded")
EntryCheck ==
    IF is_transcribing THEN "already"
    ELSE IF model = NoModel THEN "nomodel"
    ELSE "pass"

\* TranscriptionWorker._transcribe_directly: three raises; the worker never
\* sets is_transcribing
WorkerEntryCheck ==
    IF model = NoModel THEN "nomodel"
    ELSE IF is_loading THEN "loading"
    ELSE IF is_transcribing THEN "already"
    ELSE "pass"

\* where a call that passed its first check goes on
AfterEntry(k) ==
    CASE k = "sync" -> "async_check"
      [] k = "async" -> "set_flag"
      [] OTHER -> "acquire"

\* The call is made and runs its entry check.  transcribe_audio_sync is only
\* called by the lightweight UI (after _setup_callbacks); the themed UI uses
\* the worker.  Calls are numbered in the order they are issued.
IssueCall(t, k) ==
    /\ tpc[t] = "idle"
    /\ \A u \in Callers : u < t => tpc[u] # "idle"
    /\ k \in {"async", "sync"} => callbacks_set
    /\ kind' = [kind EXCEPT ![t] = k]
    /\ inFlightAtIssue' = [inFlightAtIssue EXCEPT ![t] = \E u \in Callers : u # t /\ InFlight(u)]
    /\ LET r == IF k = "worker" THEN WorkerEntryCheck ELSE EntryCheck
       IN  IF r = "pass"
           THEN tpc' = [tpc EXCEPT ![t] = AfterEntry(k)] /\ UNCHANGED outcome
           ELSE tpc' = [tpc EXCEPT ![t] = "done"] /\ outcome' = [outcome EXCEPT ![t] = r]
    /\ UNCHANGED <<model, model_name, device, is_loading, is_transcribing, progress,
                   transcription_lock, transcription_count, callbacks_set,
                   fired, invModel, loadVars, ts_last>>
    /\ UNCHANGED outsideService

\* transcribe_audio_sync passed its own check and, through run_until_complete,
\* reaches the same two raises at the head of transcribe_audio_async
AsyncCheck(t) ==
    /\ tpc[t] = "async_check"
    /\ IF EntryCheck = "pass"
       THEN tpc' = [tpc EXCEPT ![t] = "set_flag"] /\ UNCHANGED outcome
       ELSE tpc' = [tpc EXCEPT ![t] = "done"] /\ outcome' = [outcome EXCEPT ![t] = EntryCheck]
    /\ UNCHANGED <<model, model_name, device, is_loading, is_transcribing, progress,
                   transcription_lock, transcription_count, callbacks_set,
                   kind, fired, inFlightAtIssue, invModel, loadVars, ts_last>>
    /\ UNCHANGED outsideService

\* try: self.is_transcribing = True; self.progress = 0.0; run_in_executor(_transcribe_sync)
SetFlag(t) ==
    /\ tpc[t] = "set_flag"
    /\ is_transcribing' = TRUE
    /\ progress' = 0
    /\ tpc' = [tpc EXCEPT ![t] = "acquire"]
    /\ UNCHANGED <<model, model_name, device, is_loading, transcription_lock,
                   transcription_count, callbacks_set,
                   kind, outcome, fired, inFlightAtIssue, invModel, loadVars, ts_last>>
    /\ UNCHANGED outsideService

\* the lock left out: _transcribe_sync is entered without waiting
LockAvailableNoLock(t) == TRUE

\* with self.transcription_lock: blocks until the lock is free
LockAvailable(t) == transcription_lock = 0

\* _transcribe_sync enters the lock, counts, and hands self.model to transcribe()
Acquire(t) ==
    /\ tpc[t] = "acquire"
    /\ LockAvailable(t)
    /\ transcription_lock' = t
    /\ transcription_count' = transcription_count + 1
    /\ invModel' = [invModel EXCEPT ![t] = model]
    /\ tpc' = [tpc EXCEPT ![t] = "invoking"]
    /\ UNCHANGED <<model, model_name, device, is_loading, is_transcribing, progress,
                   callbacks_set, kind, outcome, fired, inFlightAtIssue, loadVars, ts_last>>
    /\ UNCHANGED outsideService

\* transcribe() returns or raises (it raises when handed no model); the lock
\* is left.  The worker's run() turns the result into a Qt signal.
InvokeEnd(t, ok) ==
    /\ tpc[t] = "invoking"
    /\ ok => invModel[t] # NoModel
    /\ transcription_lock' = 0
    /\ invModel' = [invModel EXCEPT ![t] = NoModel]
    /\ IF kind[t] = "worker"
       THEN /\ tpc' = [tpc EXCEPT ![t] = "done"]
            /\ outcome' = [outcome EXCEPT ![t] = IF ok THEN "ok" ELSE "error"]
       ELSE /\ tpc' = [tpc EXCEPT ![t] = IF ok THEN "ret_ok" ELSE "ret_err"]
            /\ UNCHANGED outcome
    /\ UNCHANGED <<model, model_name, device, is_loading, is_transcribing, progress,
                   transcription_count, callbacks_set, kind, fired, inFlightAtIssue,
                   loadVars, ts_last>>
    /\ UNCHANGED outsideService

\* self.progress = 1.0; if self.on_complete: self.on_complete(text)
AsyncSuccess(t) ==
    /\ tpc[t] = "ret_ok"
    /\ progress' = 1
    /\ fired' = [fired EXCEPT ![t] = IF callbacks_set THEN @ + 1 ELSE @]
    /\ outcome' = [outcome EXCEPT ![t] = "ok"]
    /\ tpc' = [tpc EXCEPT ![t] = "finally"]
    /\ UNCHANGED <<model, model_name, device, is_loading, is_transcribing, transcription_lock,
                   transcription_count, callbacks_set, kind, inFlightAtIssue, invModel,
                   loadVars, ts_last>>
    /\ UNCHANGED outsideService

\* except Exception as e: if self.on_error: self.on_error(e); raise
AsyncError(t) ==
    /\ tpc[t] = "ret_err"
    /\ fired' = [fired EXCEPT ![t] = IF callbacks_set THEN @ + 1 ELSE @]
    /\ outcome' = [outcome EXCEPT ![t] = "error"]
    /\ tpc' = [tpc EXCEPT ![t] = "finally"]
    /\ UNCHANGED <<model, model_name, device, is_loading, is_transcribing, progress,
                   transcription_lock, transcription_count, callbacks_set, kind,
                   inFlightAtIssue, invModel, loadVars, ts_last>>
    /\ UNCHANGED outsideService

\* the cleanup left out: the call returns with the flag still set
AsyncFinallyKeepsFlag(t) ==
    /\ tpc[t] = "finally"
    /\ tpc' = [tpc EXCEPT ![t] = "done"]
    /\ UNCHANGED <<model, model_name, device, is_loading, is_transcribing, progress,
                   transcription_lock, transcription_count, callbacks_set, kind, outcome,
                   fired, inFlightAtIssue, invModel, loadVars, ts_last>>
    /\ UNCHANGED outsideService

\* finally: self.is_transcribing = False
AsyncFinally(t) ==
    /\ tpc[t] = "finally"
    /\ is_transcribing' = FALSE
    /\ tpc' = [tpc EXCEPT ![t] = "done"]
    /\ UNCHANGED <<model, model_name, device, is_loading, progress, transcription_lock,
                   transcription_count, callbacks_set, kind, outcome, fired,
                   inFlightAtIssue, invModel, loadVars, ts_last>>
    /\ UNCHANGED outsideService

\* the steps of a call once it is issued, whichever entry point it came through
CallSteps(t) ==
    \/ AsyncCheck(t)
    \/ SetFlag(t)
    \/ Acquire(t)
    \/ \E ok \in BOOLEAN : InvokeEnd(t, ok)
    \/ AsyncSuccess(t)
    \/ AsyncError(t)
    \/ AsyncFinally(t)

LoadStep ==
    \E l \in Loads :
        \/ LoadBegin(l)
        \/ \E ok \in BOOLEAN : LoadReturn(l, ok)
        \/ LoadFinally(l)

ChangeCall ==
    \/ \E name \in ModelNames : change_model(name)
    \/ \E dev \in Devices : change_device(dev)

(***************************************************************************)
(* AudioRecorder.  A recording is numbered in the order it is started and  *)
(* its temporary file carries that number: the file name is built from the *)
(* time to the second, and recordings are taken to start in different      *)
(* seconds.                                                                *)
(***************************************************************************)
SAMPLE_RATE == 16000
CHANNELS == 1
CHUNK_SIZE == 1024

\* recordings started in one run
MaxRecordings == 2
\* samples the accumulation buffer is followed up to
MaxSamples == 9000

Recordings == 1..MaxRecordings

\* frames one stream callback hands over: a full block, or the short block
\* that brings seven full blocks to exactly half a second, or one frame less
ShortBlock == (SAMPLE_RATE \div 2) % CHUNK_SIZE
FrameCounts == {CHUNK_SIZE, ShortBlock, ShortBlock - 1}

Backends == {"sounddevice", "pyaudio"}

\* the module's imports: AUDIO_BACKEND is "sounddevice" when sounddevice and
\* pyaudio both import, "pyaudio" when sounddevice does not and pyaudio does.
\* The other backend is there to fall back on only in the first case.
AlternatePresent == audio_backend = "sounddevice"
\* device_index arguments: 0 is None, 1 an index get_audio_devices lists, 2 one it does not
DeviceArgs == {0, 1, 2}

NoRecorderCall == [op |-> "none", ret |-> 0]

\* AudioRecorder.__init__
InitRecorder ==
    /\ audio_backend \in Backends
    /\ is_recording = FALSE
    /\ current_recording_path = 0
    /\ audio_data = 0
    /\ audio_stream = "none"
    /\ recording_thread = 0
    /\ rpc = [n \in Recordings |-> "off"]
    /\ files = {}
    /\ recordings_started = 0
    /\ ar_pc = "idle"
    /\ ar_last = NoRecorderCall
    /\ stop_callbacks = <<>>

\* what no step of the recorder touches
outsideRecorder ==
    <<tsVars, chunkVars, hotkeyVars, configVars, databaseVars, clipboardVars, windowVars, openVars, playbackVars, applyVars>>

\* if device_index not in valid_indices: device_index = None
ValidatedDevice(device_index) == IF device_index = 1 THEN device_index ELSE 0

\* the guard left out: a second recording is started over the first
AlreadyRecordingNever == FALSE

\* if self.is_recording: print("Already recording"); return False
AlreadyRecording == is_recording

\* start_recording up to the point where the stream is open (sounddevice) or
\* the capture thread is started (pyaudio).  _start_pyaudio_recording only
\* starts the thread, so it cannot fail and the fallback is never taken.
start_recording(device_index, opens) ==
    /\ ar_pc = "idle"
    /\ IF AlreadyRecording
       THEN /\ ar_last' = [op |-> "start_recording", ret |-> 0]
            /\ UNCHANGED <<is_recording, current_recording_path, audio_data, audio_stream,
                           recording_thread, rpc, recordings_started, ar_pc>>
       ELSE /\ recordings_started < MaxRecordings
            /\ recordings_started' = recordings_started + 1
            /\ current_recording_path' = recordings_started + 1
            /\ audio_data' = 0
            /\ IF audio_backend = "sounddevice"
               THEN IF opens
                    THEN /\ audio_stream' = "open"
                         /\ ar_pc' = "starting"
                         /\ UNCHANGED <<is_recording, recording_thread, rpc, ar_last>>
                    ELSE \* sd.InputStream raises: "All audio backends failed"
                         /\ is_recording' = FALSE
                         /\ ar_last' = [op |-> "start_recording", ret |-> 0]
                         /\ UNCHANGED <<audio_stream, recording_thread, rpc, ar_pc>>
               ELSE /\ rpc' = [rpc EXCEPT ![recordings_started + 1] = "entry"]
                    /\ recording_thread' = recordings_started + 1
                    /\ ar_pc' = "starting"
                    /\ UNCHANGED <<is_recording, audio_stream, ar_last>>
    /\ UNCHANGED <<audio_backend, stop_callbacks, files>>
    /\ UNCHANGED outsideRecorder

\* self.is_recording = True ... return True
start_recording_return ==
    /\ ar_pc = "starting"
    /\ is_recording' = TRUE
    /\ ar_last' = [op |-> "start_recording", ret |-> 1]
    /\ ar_pc' = "idle"
    /\ UNCHANGED <<audio_backend, stop_callbacks, current_recording_path, audio_data, audio_stream,
                   recording_thread, rpc, files, recordings_started>>
    /\ UNCHANGED outsideRecorder

\* _start_sounddevice_recording.audio_callback: the stream delivers a block
audio_callback(frames) ==
    /\ audio_backend = "sounddevice"
    /\ audio_stream = "open"
    /\ audio_data + frames <= MaxSamples
    /\ audio_data' = audio_data + frames
    /\ UNCHANGED <<audio_backend, stop_callbacks, is_recording, current_recording_path, audio_stream,
                   recording_thread, rpc, files, recordings_started, ar_pc, ar_last>>
    /\ UNCHANGED outsideRecorder

\* recording_thread: `device_index` is assigned inside the thread function
\* (device_index = None), so it is a local there and its first read, at the
\* head of the try block, raises UnboundLocalError; the except clause sets
\* is_recording to False.  No stream is ever opened by the thread.
recording_thread_raises(n) ==
    /\ rpc[n] = "entry"
    /\ is_recording' = FALSE
    /\ rpc' = [rpc EXCEPT ![n] = "cleanup"]
    /\ UNCHANGED <<audio_backend, stop_callbacks, current_recording_path, audio_data, audio_stream,
                   recording_thread, files, recordings_started, ar_pc, ar_last>>
    /\ UNCHANGED outsideRecorder

\* finally: self._audio_stream = None
recording_thread_cleanup(n) ==
    /\ rpc[n] = "cleanup"
    /\ audio_stream' = "none"
    /\ rpc' = [rpc EXCEPT ![n] = "dead"]
    /\ UNCHANGED <<audio_backend, stop_callbacks, is_recording, current_recording_path, audio_data,
                   recording_thread, files, recordings_started, ar_pc, ar_last>>
    /\ UNCHANGED outsideRecorder

\* duration <= 0.5 instead of duration < 0.5
TooShortInclusive(samples) == samples * 2 <= SAMPLE_RATE

\* duration = len(self._audio_data) / self.SAMPLE_RATE; if duration < 0.5
TooShort(samples) == samples * 2 < SAMPLE_RATE

\* _save_audio_data: nothing is written without samples or without a path
SavedFiles ==
    IF audio_data = 0 \/ current_recording_path = 0
    THEN files
    ELSE {f \in files : f[1] # current_recording_path} \cup {<<current_recording_path, audio_data>>}

\* on_recording_stop called ahead of _save_audio_data
AtStopCallbackBeforeSave ==
    [is_recording |-> FALSE,
     audio_stream |-> IF audio_backend = "sounddevice" THEN "none" ELSE audio_stream,
     recording_thread |-> IF audio_backend = "pyaudio" THEN 0 ELSE recording_thread,
     files |-> files,
     current_recording_path |-> current_recording_path]

\* what on_recording_stop finds when stop_recording calls it: the flag has
\* been cleared and the capture stopped, _save_audio_data has returned, and
\* current_recording_path is not yet reset
AtStopCallback ==
    [is_recording |-> FALSE,
     audio_stream |-> IF audio_backend = "sounddevice" THEN "none" ELSE audio_stream,
     recording_thread |-> IF audio_backend = "pyaudio" THEN 0 ELSE recording_thread,
     files |-> SavedFiles,
     current_recording_path |-> current_recording_path]

\* stop_recording: the stream is closed (sounddevice) or the thread joined for
\* at most two seconds and forgotten (pyaudio); then the buffer is judged, the
\* file saved, on_recording_stop called and the path handed over
StopRecordingCall ==
    /\ ar_pc = "idle"
    /\ IF ~is_recording
       THEN /\ ar_last' = [op |-> "stop_recording", ret |-> 0]
            /\ UNCHANGED <<is_recording, current_recording_path, audio_stream,
                           recording_thread, files, stop_callbacks>>
       ELSE /\ is_recording' = FALSE
            /\ audio_stream' = IF audio_backend = "sounddevice" THEN "none" ELSE audio_stream
            /\ recording_thread' = IF audio_backend = "pyaudio" THEN 0 ELSE recording_thread
            /\ IF audio_data = 0 \/ TooShort(audio_data)
               THEN /\ ar_last' = [op |-> "stop_recording", ret |-> 0]
                    /\ UNCHANGED <<current_recording_path, files, stop_callbacks>>
               ELSE /\ files' = SavedFiles
                    /\ stop_callbacks' = Append(stop_callbacks, AtStopCallback)
                    /\ current_recording_path' = 0
                    /\ ar_last' = [op |-> "stop_recording", ret |-> current_recording_path]
    /\ UNCHANGED <<audio_backend, audio_data, rpc, recordings_started, ar_pc>>

stop_recording == StopRecordingCall /\ UNCHANGED outsideRecorder

\* whether stop_recording, called now, returns a path
ReturnsPath == is_recording /\ ~(audio_data = 0 \/ TooShort(audio_data))

\* cancel_recording: stop without saving, delete the temporary file if there is one
CancelRecordingCall ==
    /\ ar_pc = "idle"
    /\ is_recording
    /\ is_recording' = FALSE
    /\ audio_stream' = IF audio_backend = "sounddevice" THEN "none" ELSE audio_stream
    /\ recording_thread' = IF audio_backend = "pyaudio" THEN 0 ELSE recording_thread
    /\ files' = {f \in files : f[1] # current_recording_path}
    /\ current_recording_path' = 0
    /\ audio_data' = 0
    /\ ar_last' = [op |-> "cancel_recording", ret |-> 0]
    /\ UNCHANGED <<audio_backend, stop_callbacks, rpc, recordings_started, ar_pc>>

cancel_recording == CancelRecordingCall /\ UNCHANGED outsideRecorder

\* start_recording from its call to its return in one piece, as a caller
\* sees it that does nothing in between
StartRecordingToReturn(opens) ==
    /\ ar_pc = "idle"
    /\ IF AlreadyRecording
       THEN /\ ar_last' = [op |-> "start_recording", ret |-> 0]
            /\ UNCHANGED <<is_recording, current_recording_path, audio_data, audio_stream,
                           recording_thread, rpc, recordings_started>>
       ELSE /\ recordings_started < MaxRecordings
            /\ recordings_started' = recordings_started + 1
            /\ current_recording_path' = recordings_started + 1
            /\ audio_data' = 0
            /\ IF audio_backend = "sounddevice"
               THEN /\ audio_stream' = IF opens THEN "open" ELSE audio_stream
                    /\ is_recording' = opens
                    /\ ar_last' = [op |-> "start_recording", ret |-> IF opens THEN 1 ELSE 0]
                    /\ UNCHANGED <<recording_thread, rpc>>
               ELSE /\ rpc' = [rpc EXCEPT ![recordings_started + 1] = "entry"]
                    /\ recording_thread' = recordings_started + 1
                    /\ is_recording' = TRUE
                    /\ ar_last' = [op |-> "start_recording", ret |-> 1]
                    /\ UNCHANGED audio_stream
    /\ UNCHANGED <<audio_backend, stop_callbacks, files, ar_pc>>

\* AudioRecorder.cleanup: an active recording is cancelled (a playback is not
\* followed here)
RecorderCleanup ==
    IF is_recording THEN CancelRecordingCall ELSE UNCHANGED recorderVars

NextRecorder ==
    \/ \E device_index \in DeviceArgs, opens \in BOOLEAN : start_recording(device_index, opens)
    \/ start_recording_return
    \/ \E frames \in FrameCounts : audio_callback(frames)
    \/ \E n \in Recordings : recording_thread_raises(n) \/ recording_thread_cleanup(n)
    \/ stop_recording
    \/ cancel_recording

(***************************************************************************)
(* Playback.  With sounddevice, sd.play replaces whatever sounddevice was  *)
(* playing and nothing resets is_playing when the clip runs out.  With     *)
(* pyaudio every play_recording starts a thread of its own that writes the *)
(* clip chunk by chunk for as long as self.is_playing is true and clears   *)
(* the flag when it leaves; stop_playback clears the flag and does not     *)
(* wait for the thread.  The flag is shared between the caller and the     *)
(* threads without a lock, so their steps interleave freely.               *)
(***************************************************************************)
\* play_recording calls followed
MaxPlays == 3

\* chunks of 1024 frames in the longest clip
MaxChunks == 2

Clips == 1..MaxPlays

NoPlaybackThread == [pc |-> "off", left |-> 0]

NoPlaybackCall == [op |-> "none", ret |-> FALSE]

\* AudioRecorder.__init__: is_playing False, current_playing_path None
InitPlayback ==
    /\ is_playing = FALSE
    /\ current_playing_path = 0
    /\ sd_playing = 0
    /\ playback_threads = [c \in Clips |-> NoPlaybackThread]
    /\ plays_started = 0
    /\ play_pc = "idle"
    /\ play_last = NoPlaybackCall

\* what no step of the playback touches
outsidePlayback ==
    <<tsVars, recorderVars, chunkVars, hotkeyVars, configVars, databaseVars, clipboardVars,
      windowVars, openVars, applyVars>>

\* stop_playback past its guard: sd.stop() on sounddevice, then the flag and
\* the path are cleared; a pyaudio thread is left to notice the flag
StopPlaybackCall ==
    /\ sd_playing' = IF audio_backend = "sounddevice" THEN 0 ELSE sd_playing
    /\ is_playing' = FALSE
    /\ current_playing_path' = 0
    /\ UNCHANGED playback_threads

\* stop_playback: if not self.is_playing: return
stop_playback ==
    /\ play_pc = "idle"
    /\ IF is_playing
       THEN StopPlaybackCall
       ELSE UNCHANGED <<sd_playing, is_playing, current_playing_path, playback_threads>>
    /\ play_last' = [op |-> "stop_playback", ret |-> FALSE]
    /\ UNCHANGED <<plays_started, play_pc>>
    /\ UNCHANGED outsidePlayback

\* play_recording, first statement: if self.is_playing: self.stop_playback()
play_recording_stops ==
    /\ play_pc = "idle"
    /\ plays_started < MaxPlays
    /\ IF is_playing
       THEN StopPlaybackCall
       ELSE UNCHANGED <<sd_playing, is_playing, current_playing_path, playback_threads>>
    /\ play_pc' = "stopped"
    /\ UNCHANGED <<plays_started, play_last>>
    /\ UNCHANGED outsidePlayback

\* play_recording, the rest: _play_with_sounddevice reads the file and hands
\* it to sd.play (a file that cannot be read makes it return False);
\* _play_with_pyaudio sets the flag and the path and starts a thread
play_recording_starts(readable) ==
    /\ play_pc = "stopped"
    /\ plays_started' = plays_started + 1
    /\ play_pc' = "idle"
    /\ IF audio_backend = "sounddevice"
       THEN IF readable
            THEN /\ sd_playing' = plays_started + 1
                 /\ is_playing' = TRUE
                 /\ current_playing_path' = plays_started + 1
                 /\ play_last' = [op |-> "play_recording", ret |-> TRUE]
                 /\ UNCHANGED playback_threads
            ELSE /\ play_last' = [op |-> "play_recording", ret |-> FALSE]
                 /\ UNCHANGED <<sd_playing, is_playing, current_playing_path,
                                playback_threads>>
       ELSE /\ is_playing' = TRUE
            /\ current_playing_path' = plays_started + 1
            /\ playback_threads' =
                   [playback_threads EXCEPT ![plays_started + 1] = [pc |-> "entry", left |-> 0]]
            /\ play_last' = [op |-> "play_recording", ret |-> TRUE]
            /\ UNCHANGED sd_playing
    /\ UNCHANGED outsidePlayback

\* sounddevice reaches the end of the clip; is_playing is not touched
sd_playback_ends ==
    /\ sd_playing # 0
    /\ sd_playing' = 0
    /\ UNCHANGED <<is_playing, current_playing_path, playback_threads, plays_started,
                   play_pc, play_last>>
    /\ UNCHANGED outsidePlayback

\* playback_thread: wave.open and self._audio_interface.open, then the first
\* readframes; a file or a device that cannot be opened raises
playback_thread_opens(c, chunks, opened) ==
    /\ playback_threads[c].pc = "entry"
    /\ playback_threads' =
           [playback_threads EXCEPT ![c] = IF opened
                                           THEN [pc |-> "writing", left |-> chunks]
                                           ELSE [pc |-> "finally", left |-> 0]]
    /\ UNCHANGED <<is_playing, current_playing_path, sd_playing, plays_started,
                   play_pc, play_last>>
    /\ UNCHANGED outsidePlayback

\* while data and self.is_playing: stream.write(data); data = readframes(...)
playback_thread_loop(c) ==
    /\ playback_threads[c].pc = "writing"
    /\ playback_threads' =
           [playback_threads EXCEPT ![c] =
               IF playback_threads[c].left > 0 /\ is_playing
               THEN [pc |-> "writing", left |-> playback_threads[c].left - 1]
               ELSE [pc |-> "finally", left |-> 0]]
    /\ UNCHANGED <<is_playing, current_playing_path, sd_playing, plays_started,
                   play_pc, play_last>>
    /\ UNCHANGED outsidePlayback

\* finally: self.is_playing = False; self.current_playing_path = None
playback_thread_finally(c) ==
    /\ playback_threads[c].pc = "finally"
    /\ is_playing' = FALSE
    /\ current_playing_path' = 0
    /\ playback_threads' = [playback_threads EXCEPT ![c] = [pc |-> "done", left |-> 0]]
    /\ UNCHANGED <<sd_playing, plays_started, play_pc, play_last>>
    /\ UNCHANGED outsidePlayback

NextPlayback ==
    \/ stop_playback
    \/ play_recording_stops
    \/ \E readable \in BOOLEAN : play_recording_starts(readable)
    \/ sd_playback_ends
    \/ \E c \in Clips, chunks \in 1..MaxChunks, opened \in BOOLEAN :
           playback_thread_opens(c, chunks, opened)
    \/ \E c \in Clips : playback_thread_loop(c)
    \/ \E c \in Clips : playback_thread_finally(c)

(***************************************************************************)
(* Per-chunk processing of the read loop, as a function of the chunk's     *)
(* length: stream.read returns frames * channels values; a stereo chunk is *)
(* averaged pairwise; a chunk at another rate is resampled to              *)
(* int(len * (SAMPLE_RATE / rate)) values, unless that is 0.  (The float   *)
(* product truncates to the integer quotient for every length up to 20000  *)
(* at each of the rates below.)                                            *)
(***************************************************************************)
\* chunk lengths followed
MaxFrames == 4800

\* the sample rates the settings dialog offers
Rates == {8000, 16000, 22050, 44100, 48000}

\* audio_chunk.reshape(-1, 2).mean(axis=1)
MonoLength(values, channels) ==
    IF channels = 2 /\ CHANNELS = 1 THEN values \div 2 ELSE values

\* new_length rounded to the nearest integer instead of truncated
ResampledLengthRounded(len, rate) ==
    IF rate # SAMPLE_RATE
    THEN LET new_length == (2 * len * SAMPLE_RATE + rate) \div (2 * rate)
         IN  IF new_length > 0 THEN new_length ELSE len
    ELSE len

\* ratio = SAMPLE_RATE / rate; new_length = int(len * ratio); if new_length > 0: resample
ResampledLength(len, rate) ==
    IF rate # SAMPLE_RATE
    THEN LET new_length == (len * SAMPLE_RATE) \div rate
         IN  IF new_length > 0 THEN new_length ELSE len
    ELSE len

ProcessedLength(frames, channels, rate) ==
    ResampledLength(MonoLength(frames * channels, channels), rate)

\* what the per-chunk processing does not touch
outsideChunk ==
    <<tsVars, recorderVars, hotkeyVars, configVars, databaseVars, clipboardVars, windowVars, openVars, playbackVars, applyVars>>

\* no chunk in hand
InitChunkIdle ==
    /\ chunk_frames = 0
    /\ chunk_channels = CHANNELS
    /\ chunk_rate = SAMPLE_RATE
    /\ chunk_out = -1

\* a chunk read under some negotiated configuration
InitChunk ==
    /\ chunk_frames \in 0..MaxFrames
    /\ chunk_channels \in {1, 2}
    /\ chunk_rate \in Rates
    /\ chunk_out = -1

\* the body of the read loop up to self._audio_data.extend(audio_chunk)
ProcessChunk ==
    /\ chunk_out = -1
    /\ chunk_out' = ProcessedLength(chunk_frames, chunk_channels, chunk_rate)
    /\ UNCHANGED <<chunk_frames, chunk_channels, chunk_rate>>
    /\ UNCHANGED outsideChunk

\* the recorder as the other specifications leave it
InitRecorderIdle == InitRecorder /\ audio_backend = "sounddevice"

(***************************************************************************)
(* The capture thread's opening of the stream (pyaudio's read-loop          *)
(* interface), as a function of the device index start_recording passed     *)
(* on, the device's native rate and what the device answers to each of the  *)
(* four open attempts.  A name the thread function assigns anywhere in its  *)
(* body is a local of that function from its first line; reading it before  *)
(* it is assigned raises UnboundLocalError.                                  *)
(***************************************************************************)
NativeRates == {16000, 44100, 48000}

\* the four stream configurations, in the order of stream_configs
StreamConfigs(native) ==
    << [channels |-> CHANNELS, rate |-> SAMPLE_RATE],
       [channels |-> CHANNELS, rate |-> native],
       [channels |-> 1, rate |-> SAMPLE_RATE],
       [channels |-> 1, rate |-> native] >>

\* what the device answers to the i-th open: every combination for four attempts
Answers == [1..4 -> BOOLEAN]

\* __init__: self._working_channels = self.CHANNELS, self._working_rate = self.SAMPLE_RATE
InitialWorking == [channels |-> CHANNELS, rate |-> SAMPLE_RATE]

\* the names recording_thread assigns, hence its locals: device_index
\* (device_index = None in the handler of the device test), device_info,
\* stream, stream_configs, last_error, ...; the function has no parameters,
\* so none of them is bound when it starts
ThreadLocalsBoundAtEntry == {}

\* for i, config in enumerate(stream_configs): the attempts made until the
\* first one that is accepted, and that one (0 if none)
RECURSIVE AttemptsFrom(_, _)
AttemptsFrom(i, accepts) ==
    IF i > 4 THEN [tried |-> <<>>, accepted |-> 0]
    ELSE IF accepts[i] THEN [tried |-> <<i>>, accepted |-> i]
    ELSE LET rest == AttemptsFrom(i + 1, accepts)
         IN  [tried |-> <<i>> \o rest.tried, accepted |-> rest.accepted]

NotOpened(error) ==
    [raised |-> error, tried |-> <<>>, stream |-> FALSE, working |-> InitialWorking]

\* recording_thread from its first line to the read loop
ThreadOpen(device_index, native, accepts) ==
    IF "device_index" \notin ThreadLocalsBoundAtEntry
    THEN \* if device_index is not None: the local is read before any assignment
         NotOpened("UnboundLocalError: device_index")
    ELSE IF device_index = 0
    THEN \* device_info.get(...) in stream_configs: device_info was never assigned
         NotOpened("UnboundLocalError: device_info")
    ELSE LET attempts == AttemptsFrom(1, accepts)
         IN  IF attempts.accepted = 0
             THEN [raised |-> "All configurations failed", tried |-> attempts.tried,
                   stream |-> FALSE, working |-> InitialWorking]
             ELSE [raised |-> "", tried |-> attempts.tried, stream |-> TRUE,
                   working |-> StreamConfigs(native)[attempts.accepted]]

NoOpenResult ==
    [raised |-> "", tried |-> <<>>, stream |-> FALSE, working |-> InitialWorking]

\* a capture thread about to run, for every device index, native rate and
\* sequence of answers
InitOpen ==
    /\ open_request \in [device_index : DeviceArgs, native : NativeRates, accepts : Answers]
    /\ open_result = NoOpenResult
    /\ open_pc = "entry"

\* the thread as the other specifications leave it
InitOpenIdle ==
    /\ open_request = [device_index |-> 0, native |-> 16000,
                       accepts |-> [i \in 1..4 |-> TRUE]]
    /\ open_result = NoOpenResult
    /\ open_pc = "entry"

\* the thread runs up to its read loop, or into its except clause
recording_thread_open ==
    /\ open_pc = "entry"
    /\ open_pc' = "opened"
    /\ open_result' = ThreadOpen(ValidatedDevice(open_request.device_index),
                                 open_request.native, open_request.accepts)
    /\ UNCHANGED open_request
    /\ UNCHANGED outsideOpen

NextOpen == recording_thread_open

(***************************************************************************)
(* GlobalHotkeyManager.  A key token is a string; lower() and strip() are   *)
(* tabulated over the tokens the model passes in.  A callback is a number,  *)
(* 0 for None.  The description field of a HotkeyConfig is left out.        *)
(***************************************************************************)
MaxListeners == 2

\* threads calling start_listening
MaxStarters == 2

Starters == 1..MaxStarters

HotkeyNames == {"toggle_recording", "quick_transcribe", "show_window", "custom"}

Callbacks == {1, 2}

\* key.lower().strip()
lower_strip(key) ==
    CASE key = "Ctrl"  -> "ctrl"
      [] key = "SHIFT" -> "shift"
      [] key = "Win"   -> "win"
      [] key = " T "   -> "t"
      [] key = "CONTROL" -> "control"
      [] key = "Alt"   -> "alt"
      [] key = "Windows" -> "windows"
      [] key = "CMD"   -> "cmd"
      [] key = "Super" -> "super"
      [] key = "Return" -> "return"
      [] key = "ESC"   -> "esc"
      [] key = "Del"   -> "del"
      [] key = "F12"   -> "f12"
      [] key = "R"     -> "r"
      [] OTHER         -> key

\* the key_mapping table of _normalize_keys
key_mapping ==
    [k \in {"ctrl", "control", "shift", "alt", "win", "cmd", "super", "space", "enter",
            "return", "tab", "escape", "esc", "backspace", "delete", "del",
            "f1", "f2", "f3", "f4", "f5", "f6", "f7", "f8", "f9", "f10", "f11", "f12"} |->
        CASE k = "control" -> "ctrl"
          [] k \in {"win", "super"} -> "cmd"
          [] k = "return" -> "enter"
          [] k = "escape" -> "esc"
          [] k = "del" -> "delete"
          [] OTHER -> k]

\* len(key) == 1 and key.isalnum(), over the tokens of the model
SingleAlnum == {"r", "t", "w", "1"}

\* the key lists handed to register_hotkey
KeyInputs ==
    { <<"Ctrl", "SHIFT", "r">>, <<"ctrl", "foo">>, <<"foo", "ctrl">>,
      <<"control", "shift", "w">>, <<"Win", " T ">>, <<"ctrl", "ab">>,
      <<"f1">>, <<>> }

RECURSIVE normalize_rest(_, _)
normalize_rest(keys, normalized) ==
    IF keys = <<>>
    THEN normalized
    ELSE LET key_lower == lower_strip(Head(keys))
         IN  IF key_lower \in DOMAIN key_mapping
             THEN normalize_rest(Tail(keys), Append(normalized, key_mapping[key_lower]))
             ELSE IF key_lower \in SingleAlnum
                  THEN normalize_rest(Tail(keys), Append(normalized, key_lower))
                  ELSE <<>>

\* an unknown token skipped instead of refusing the whole list
RECURSIVE normalize_skipping(_, _)
normalize_skipping(keys, normalized) ==
    IF keys = <<>>
    THEN normalized
    ELSE LET key_lower == lower_strip(Head(keys))
         IN  IF key_lower \in DOMAIN key_mapping
             THEN normalize_skipping(Tail(keys), Append(normalized, key_mapping[key_lower]))
             ELSE IF key_lower \in SingleAlnum
                  THEN normalize_skipping(Tail(keys), Append(normalized, key_lower))
                  ELSE normalize_skipping(Tail(keys), normalized)

normalize_keys_partial(keys) == normalize_skipping(keys, <<>>)

\* _normalize_keys: the canonical tokens, or [] at the first unknown token
normalize_keys(keys) == normalize_rest(keys, <<>>)

\* _keys_to_pynput_format returns a combination (not None): the list is not
\* empty and every key is a modifier, one of six specials, or one character
PynputKeys == {"ctrl", "shift", "alt", "cmd", "space", "enter", "tab", "esc",
               "backspace", "delete"}

keys_to_pynput_format_ok(keys) ==
    /\ keys # <<>>
    /\ \A i \in 1..Len(keys) : keys[i] \in PynputKeys \cup SingleAlnum

NoHotkey == [registered |-> FALSE, keys |-> <<>>, callback |-> 0, enabled |-> FALSE]

DefaultHotkey(key) ==
    [registered |-> TRUE, keys |-> <<"ctrl", "shift", key>>, callback |-> 0,
     enabled |-> TRUE]

NoHotkeyCall == [op |-> "none", name |-> "none", keys |-> <<>>, callback |-> 0,
                 ret |-> FALSE]

\* the dict literal of _setup_default_hotkeys, in its order
DefaultOrder == <<"toggle_recording", "quick_transcribe", "show_window">>

\* an empty hotkey_mapping; also stands for no listener
NoMapping == <<>>

\* a function key passed on as '<f1>' ... '<f12>'
PynputToken(key) == IF key \in SingleAlnum THEN key ELSE "<" \o key \o ">"

\* _keys_to_pynput_format: the tokens that are joined with '+', or <<>> for
\* None; a key outside the branches of the if chain (a function key) makes
\* the whole list None
keys_to_pynput_format(keys) ==
    IF keys_to_pynput_format_ok(keys)
    THEN [i \in 1..Len(keys) |->
             IF keys[i] \in PynputKeys THEN "<" \o keys[i] \o ">" ELSE keys[i]]
    ELSE <<>>

\* the loop of start_listening over self.hotkeys.items(): a later entry with
\* the same key_combination replaces the earlier one
RECURSIVE MappingFrom(_, _)
MappingFrom(names, hotkey_mapping) ==
    IF names = <<>>
    THEN hotkey_mapping
    ELSE LET config == hotkeys[Head(names)]
             key_combination == keys_to_pynput_format(config.keys)
         IN  MappingFrom(Tail(names),
                 IF config.enabled /\ config.callback # 0 /\ key_combination # <<>>
                 THEN (key_combination :> config.callback) @@ hotkey_mapping
                 ELSE hotkey_mapping)

HotkeyMapping == MappingFrom(hotkey_order, NoMapping)

\* self.hotkeys[name] = hotkey_config: a new name goes to the end of the dict
OrderWith(name) ==
    IF hotkeys[name].registered THEN hotkey_order ELSE Append(hotkey_order, name)

\* del self.hotkeys[name]
OrderWithout(name) == SelectSeq(hotkey_order, LAMBDA n : n # name)

\* __init__ and _setup_default_hotkeys
InitHotkeys ==
    /\ PYNPUT_AVAILABLE \in BOOLEAN
    /\ hotkeys = [n \in HotkeyNames |->
                    CASE n = "toggle_recording" -> DefaultHotkey("r")
                      [] n = "quick_transcribe" -> DefaultHotkey("t")
                      [] n = "show_window"      -> DefaultHotkey("w")
                      [] OTHER                  -> NoHotkey]
    /\ hotkey_order = DefaultOrder
    /\ listener_mapping = NoMapping
    /\ listener = 0
    /\ is_running = FALSE
    /\ listeners_created = 0
    /\ listeners_stopped = 0
    /\ listeners_running = {}
    /\ sl_pc = [t \in Starters |-> "idle"]
    /\ hk_last = NoHotkeyCall

\* the manager as the other specifications leave it
InitHotkeysIdle == InitHotkeys /\ PYNPUT_AVAILABLE = FALSE

outsideHotkeys ==
    <<tsVars, recorderVars, chunkVars, configVars, databaseVars, clipboardVars, windowVars, openVars, playbackVars, applyVars>>

\* the availability test left out
HookUnavailableNever == FALSE

\* if not PYNPUT_AVAILABLE: return False
HookUnavailable == ~PYNPUT_AVAILABLE

register_hotkey(name, keys, callback) ==
    LET normalized_keys == normalize_keys(keys)
        ok == ~HookUnavailable /\ normalized_keys # <<>>
    IN  /\ hotkeys' = IF ok
                      THEN [hotkeys EXCEPT ![name] =
                              [registered |-> TRUE, keys |-> normalized_keys,
                               callback |-> callback, enabled |-> TRUE]]
                      ELSE hotkeys
        /\ hotkey_order' = IF ok THEN OrderWith(name) ELSE hotkey_order
        /\ hk_last' = [op |-> "register_hotkey", name |-> name, keys |-> keys,
                       callback |-> callback, ret |-> ok]
        /\ UNCHANGED <<PYNPUT_AVAILABLE, listener_mapping, listener, is_running, listeners_created,
                       listeners_stopped, listeners_running, sl_pc>>
        /\ UNCHANGED outsideHotkeys

TableCall(op, name, callback, entry) ==
    /\ hotkeys' = IF hotkeys[name].registered
                  THEN [hotkeys EXCEPT ![name] = entry]
                  ELSE hotkeys
    /\ hotkey_order' = IF entry = NoHotkey THEN OrderWithout(name) ELSE hotkey_order
    /\ hk_last' = [op |-> op, name |-> name, keys |-> <<>>, callback |-> callback,
                   ret |-> hotkeys[name].registered]
    /\ UNCHANGED <<PYNPUT_AVAILABLE, listener_mapping, listener, is_running, listeners_created,
                   listeners_stopped, listeners_running, sl_pc>>
    /\ UNCHANGED outsideHotkeys

unregister_hotkey(name) == TableCall("unregister_hotkey", name, 0, NoHotkey)

set_hotkey_callback(name, callback) ==
    TableCall("set_hotkey_callback", name, callback,
              [hotkeys[name] EXCEPT !.callback = callback])

enable_hotkey(name) ==
    TableCall("enable_hotkey", name, 0, [hotkeys[name] EXCEPT !.enabled = TRUE])

disable_hotkey(name) ==
    TableCall("disable_hotkey", name, 0, [hotkeys[name] EXCEPT !.enabled = FALSE])

\* the hotkey_mapping start_listening builds is not empty
HotkeyMappingNonEmpty ==
    \E n \in HotkeyNames :
        /\ hotkeys[n].registered
        /\ hotkeys[n].enabled
        /\ hotkeys[n].callback # 0
        /\ keys_to_pynput_format_ok(hotkeys[n].keys)

\* a listener installed over the one that is running
ListenerAlreadyRunningNever == FALSE

\* if self.is_running: print("Hotkey listener already running"); return True
ListenerAlreadyRunning == is_running

\* start_listening.  raises tells where the try block fails, if it does:
\* in GlobalHotKeys(hotkey_mapping) or in listener.start()
start_listening(raises) ==
    /\ IF HookUnavailable \/ ListenerAlreadyRunning \/ ~HotkeyMappingNonEmpty
       THEN /\ raises = "no"
            /\ hk_last' = [NoHotkeyCall EXCEPT !.op = "start_listening",
                                               !.ret = ~HookUnavailable /\ is_running]
            /\ UNCHANGED <<listener_mapping, listener, is_running, listeners_created>>
       ELSE /\ listeners_created < MaxListeners
            /\ hk_last' = [NoHotkeyCall EXCEPT !.op = "start_listening",
                                               !.ret = (raises = "no")]
            /\ IF raises = "constructor"
               THEN UNCHANGED <<listener_mapping, listener, listeners_created>>
               ELSE /\ listener_mapping' = HotkeyMapping
                    /\ listener' = listeners_created + 1
                    /\ listeners_created' = listeners_created + 1
            /\ is_running' = (raises = "no")
    /\ listeners_running' = IF is_running' /\ ~is_running
                             THEN listeners_running \cup {listener'}
                             ELSE listeners_running
    /\ UNCHANGED <<PYNPUT_AVAILABLE, hotkeys, hotkey_order, listeners_stopped, sl_pc>>
    /\ UNCHANGED outsideHotkeys

\* the listener kept when the flag is cleared
StopListeningCallKeepsListener(caller) ==
    /\ hk_last' = [NoHotkeyCall EXCEPT !.op = caller]
    /\ is_running' = FALSE
    /\ UNCHANGED <<PYNPUT_AVAILABLE, hotkeys, hotkey_order, listener_mapping, listener, listeners_created,
                   listeners_stopped, listeners_running, sl_pc>>

\* stop_listening, called as itself or by cleanup.  listener.stop() is taken
\* not to raise; self.pressed_keys does not exist, so the try block ends in
\* its except clause after is_running is cleared.
StopListeningCall(caller) ==
    /\ hk_last' = [NoHotkeyCall EXCEPT !.op = caller]
    /\ IF ~is_running
       THEN UNCHANGED <<listener_mapping, listener, is_running, listeners_stopped,
                        listeners_running>>
       ELSE /\ listener_mapping' = NoMapping
            /\ listener' = 0
            /\ listeners_stopped' = IF listener # 0 THEN listeners_stopped + 1
                                                    ELSE listeners_stopped
            /\ listeners_running' = listeners_running \ {listener}
            /\ is_running' = FALSE
    /\ UNCHANGED <<PYNPUT_AVAILABLE, hotkeys, hotkey_order, listeners_created, sl_pc>>

stop_listening(caller) == StopListeningCall(caller) /\ UNCHANGED outsideHotkeys

cleanup == stop_listening("cleanup")

\* start_listening statement by statement, for callers on several threads.
\* The table is not changed meanwhile, so the mapping built under the lock
\* is HotkeyMapping; GlobalHotKeys(...) is taken not to raise.
\* if not PYNPUT_AVAILABLE ... if self.is_running ... if not hotkey_mapping
start_listening_check(t) ==
    /\ sl_pc[t] = "idle"
    /\ IF HookUnavailable \/ ListenerAlreadyRunning \/ ~HotkeyMappingNonEmpty
       THEN /\ hk_last' = [NoHotkeyCall EXCEPT !.op = "start_listening",
                                               !.ret = ~HookUnavailable /\ is_running]
            /\ UNCHANGED sl_pc
       ELSE /\ sl_pc' = [sl_pc EXCEPT ![t] = "checked"]
            /\ UNCHANGED hk_last
    /\ UNCHANGED <<PYNPUT_AVAILABLE, hotkeys, hotkey_order, listener_mapping, listener,
                   is_running, listeners_created, listeners_stopped, listeners_running>>
    /\ UNCHANGED outsideHotkeys

\* self.listener = GlobalHotKeys(hotkey_mapping)
start_listening_create(t) ==
    /\ sl_pc[t] = "checked"
    /\ listeners_created < MaxListeners
    /\ listener_mapping' = HotkeyMapping
    /\ listener' = listeners_created + 1
    /\ listeners_created' = listeners_created + 1
    /\ sl_pc' = [sl_pc EXCEPT ![t] = "created"]
    /\ UNCHANGED <<PYNPUT_AVAILABLE, hotkeys, hotkey_order, is_running, listeners_stopped,
                   listeners_running, hk_last>>
    /\ UNCHANGED outsideHotkeys

\* self.listener.start(): the attribute is read again, so the call goes to
\* whichever listener is assigned by now; it raises on None and on a
\* listener that has been started, and the except clause returns False
start_listening_start(t) ==
    /\ sl_pc[t] = "created"
    /\ IF listener # 0 /\ listener \notin listeners_running
       THEN /\ listeners_running' = listeners_running \cup {listener}
            /\ sl_pc' = [sl_pc EXCEPT ![t] = "started"]
            /\ UNCHANGED hk_last
       ELSE /\ hk_last' = [NoHotkeyCall EXCEPT !.op = "start_listening", !.ret = FALSE]
            /\ sl_pc' = [sl_pc EXCEPT ![t] = "idle"]
            /\ UNCHANGED listeners_running
    /\ UNCHANGED <<PYNPUT_AVAILABLE, hotkeys, hotkey_order, listener_mapping, listener,
                   is_running, listeners_created, listeners_stopped>>
    /\ UNCHANGED outsideHotkeys

\* self.is_running = True; return True
start_listening_return(t) ==
    /\ sl_pc[t] = "started"
    /\ is_running' = TRUE
    /\ hk_last' = [NoHotkeyCall EXCEPT !.op = "start_listening", !.ret = TRUE]
    /\ sl_pc' = [sl_pc EXCEPT ![t] = "idle"]
    /\ UNCHANGED <<PYNPUT_AVAILABLE, hotkeys, hotkey_order, listener_mapping, listener,
                   listeners_created, listeners_stopped, listeners_running>>
    /\ UNCHANGED outsideHotkeys

\* SpecListen: start_listening called from several threads, and stop_listening
NextListen ==
    \/ \E t \in Starters :
          \/ start_listening_check(t)
          \/ start_listening_create(t)
          \/ start_listening_start(t)
          \/ start_listening_return(t)
    \/ stop_listening("stop_listening")
    \/ cleanup

\* the tk window's parser of a hotkey string ("Ctrl+Shift+R"), given the
\* pieces between the '+' signs: each piece lower-cased and freed of blanks
\* (the pieces of the model have blanks at their ends only), then matched
\* against the parser's own list; <<>> stands for the early return False
RECURSIVE custom_hotkey_keys(_, _)
custom_hotkey_keys(parts, keys) ==
    IF parts = <<>>
    THEN keys
    ELSE LET part == lower_strip(Head(parts))
         IN  CASE part \in {"ctrl", "control"} ->
                      custom_hotkey_keys(Tail(parts), Append(keys, "ctrl"))
               [] part \in {"shift", "alt"} ->
                      custom_hotkey_keys(Tail(parts), Append(keys, part))
               [] part \in {"win", "windows", "cmd"} ->
                      custom_hotkey_keys(Tail(parts), Append(keys, "cmd"))
               [] part \in SingleAlnum ->
                      custom_hotkey_keys(Tail(parts), Append(keys, part))
               [] OTHER -> <<>>

\* _register_custom_hotkey: register_hotkey with the parsed keys, or False
\* without a call of the manager
register_custom_hotkey(name, parts, callback) ==
    LET keys == custom_hotkey_keys(parts, <<>>)
    IN  IF keys # <<>>
        THEN register_hotkey(name, keys, callback)
        ELSE /\ hk_last' = [op |-> "_register_custom_hotkey", name |-> name, keys |-> parts,
                            callback |-> callback, ret |-> FALSE]
             /\ UNCHANGED <<PYNPUT_AVAILABLE, hotkeys, hotkey_order, listener_mapping,
                            listener, is_running, listeners_created, listeners_stopped, listeners_running, sl_pc>>
             /\ UNCHANGED outsideHotkeys

\* single key tokens, in the spellings callers use
KeyTokens ==
    {"Ctrl", "ctrl", "control", "CONTROL", "SHIFT", "shift", "Alt", "alt",
     "Win", "win", "Windows", "windows", "CMD", "cmd", "Super", "super",
     "space", "enter", "Return", "return", "tab", "escape", "ESC", "esc",
     "backspace", "delete", "Del", "del", "f1", "F12", "f12",
     "R", "r", "1", "foo", "ab", "-", ""}

\* key lists of one token, and one of two
TokenLists == {<<k>> : k \in KeyTokens} \cup {<<"Windows", "r">>}

\* one token after the other handed to register_hotkey and to the parser
NextKeys ==
    \/ \E k \in TokenLists : register_hotkey("custom", k, 1)
    \/ \E k \in TokenLists : register_custom_hotkey("custom", k, 1)

\* the name the model registers, enables, disables and removes
CalledNames == {"custom"}

\* the names the model binds a callback to: the built-in toggle_recording,
\* which has none until one is set, and the registered one
ReboundNames == {"toggle_recording", "custom"}

NextHotkeys ==
    \/ \E n \in CalledNames, k \in KeyInputs, c \in Callbacks : register_hotkey(n, k, c)
    \/ \E n \in CalledNames : unregister_hotkey(n)
    \/ \E n \in ReboundNames : set_hotkey_callback(n, 1)
    \/ \E n \in CalledNames : enable_hotkey(n)
    \/ \E n \in CalledNames : disable_hotkey(n)
    \/ \E r \in {"no", "constructor", "start"} : start_listening(r)
    \/ stop_listening("stop_listening")
    \/ cleanup

(***************************************************************************)
(* ConfigManager.  A Python value is written as the string of its repr, a   *)
(* dict as a function on its keys, a file as what it holds: nothing, text   *)
(* that is not JSON, or a JSON object given as key -> JSON text.  Writing   *)
(* a file is taken to succeed.                                              *)
(***************************************************************************)
default_settings ==
    [audio_device |-> "None", audio_device_name |-> "None", sample_rate |-> "16000",
     monitor_audio |-> "False", noise_reduction |-> "False", model |-> "'base'",
     device |-> "'cpu'", language |-> "'auto'", task |-> "'transcribe'",
     temperature |-> "0.0", record_hotkey |-> "'Ctrl+Shift+R'",
     window_hotkey |-> "'Ctrl+Shift+W'", autostart |-> "False", system_tray |-> "True",
     theme |-> "'default'", auto_cleanup |-> "True", window_geometry |-> "'800x600'",
     window_position |-> "None"]

SchemaKeys == DOMAIN default_settings

\* the window's settings as the constructor takes them from the store
InitApplyIdle == app_settings = default_settings

\* json.dump of one value
json_dumps(value) ==
    CASE value = "None"  -> "null"
      [] value = "True"  -> "true"
      [] value = "False" -> "false"
      [] value = "'base'" -> "\"base\""
      [] value = "'small'" -> "\"small\""
      [] value = "'cpu'" -> "\"cpu\""
      [] value = "'auto'" -> "\"auto\""
      [] value = "'transcribe'" -> "\"transcribe\""
      [] value = "'Ctrl+Shift+R'" -> "\"Ctrl+Shift+R\""
      [] value = "'Ctrl+Shift+W'" -> "\"Ctrl+Shift+W\""
      [] value = "'default'" -> "\"default\""
      [] value = "'800x600'" -> "\"800x600\""
      [] OTHER -> value

\* json.load of one value
json_loads(text) ==
    CASE text = "null"  -> "None"
      [] text = "true"  -> "True"
      [] text = "false" -> "False"
      [] text = "\"base\"" -> "'base'"
      [] text = "\"small\"" -> "'small'"
      [] text = "\"cpu\"" -> "'cpu'"
      [] text = "\"auto\"" -> "'auto'"
      [] text = "\"transcribe\"" -> "'transcribe'"
      [] text = "\"Ctrl+Shift+R\"" -> "'Ctrl+Shift+R'"
      [] text = "\"Ctrl+Shift+W\"" -> "'Ctrl+Shift+W'"
      [] text = "\"default\"" -> "'default'"
      [] text = "\"800x600\"" -> "'800x600'"
      [] OTHER -> text

EmptyDict == [k \in {} |-> "None"]

NoFile == [kind |-> "absent", doc |-> EmptyDict]

CorruptFile == [kind |-> "corrupt", doc |-> EmptyDict]

\* json.dump(self.settings, f)
JsonFile(dict) == [kind |-> "json", doc |-> [k \in DOMAIN dict |-> json_dumps(dict[k])]]

\* json.load(f) of a file that holds a JSON object
JsonDict(file) == [k \in DOMAIN file.doc |-> json_loads(file.doc[k])]

\* dict.update
Update(dict, other) ==
    [k \in (DOMAIN dict) \cup (DOMAIN other) |->
        IF k \in DOMAIN other THEN other[k] ELSE dict[k]]

\* unknown keys let through
ValidatedUnfiltered(dict) == dict

\* the keys of a dict that are in default_settings
Validated(dict) == [k \in (DOMAIN dict) \cap SchemaKeys |-> dict[k]]

\* the keys and values the model passes to save_settings and set_setting
InputValues ==
    [model |-> {"'base'", "'small'"}, sample_rate |-> {"16000", "44100"},
     audio_device |-> {"None", "1"}, bogus_option |-> {"1"}]

InputKeys == DOMAIN InputValues

SettingsMaps ==
    UNION { {f \in [S -> UNION {InputValues[k] : k \in InputKeys}] :
                \A k \in S : f[k] \in InputValues[k]} : S \in SUBSET InputKeys }

\* a file left by an earlier version or edited by hand
ForeignFile == [kind |-> "json", doc |-> [model |-> "\"small\"", bogus_option |-> "1"]]

\* the file never read
LoadedIgnoringFile(current, file) == current

\* what load_settings leaves in self.settings, given what it held
Loaded(current, file) ==
    CASE file.kind = "absent"  -> current
      [] file.kind = "corrupt" -> default_settings
      [] OTHER                 -> Update(current, Validated(JsonDict(file)))

NoConfigCall == [op |-> "none", given |-> FALSE, arg |-> EmptyDict, ret |-> FALSE]

\* __init__: the defaults, then load_settings
InitConfig ==
    /\ config_file \in {NoFile, CorruptFile, ForeignFile, JsonFile(default_settings)}
    /\ backup_file \in {NoFile, ForeignFile}
    /\ settings = Loaded(default_settings, config_file)
    /\ cfg_last = [NoConfigCall EXCEPT !.op = "init"]

\* the store as the other specifications leave it
InitConfigIdle == InitConfig /\ config_file = NoFile /\ backup_file = NoFile

\* a fresh ConfigManager on the same file; cfg_last keeps the map of the
\* save_settings(settings) call it follows, if it follows one
ConfigManager_init ==
    /\ settings' = Loaded(default_settings, config_file)
    /\ cfg_last' = IF cfg_last.op = "save_settings" /\ cfg_last.given
                   THEN [cfg_last EXCEPT !.op = "init", !.ret = FALSE]
                   ELSE [NoConfigCall EXCEPT !.op = "init"]
    /\ UNCHANGED <<config_file, backup_file>>
    /\ UNCHANGED outsideConfig

load_settings ==
    /\ settings' = Loaded(settings, config_file)
    /\ cfg_last' = [NoConfigCall EXCEPT !.op = "load_settings"]
    /\ UNCHANGED <<config_file, backup_file>>
    /\ UNCHANGED outsideConfig

\* save_settings(settings) and save_settings(): given tells which
save_settings(given, arg) ==
    /\ settings' = IF given THEN Update(settings, Validated(arg)) ELSE settings
    /\ config_file' = JsonFile(settings')
    /\ cfg_last' = [op |-> "save_settings", given |-> given, arg |-> arg, ret |-> TRUE]
    /\ UNCHANGED backup_file
    /\ UNCHANGED outsideConfig

set_setting(key, value) ==
    /\ settings' = IF key \in SchemaKeys THEN [settings EXCEPT ![key] = value]
                                         ELSE settings
    /\ cfg_last' = [NoConfigCall EXCEPT !.op = "set_setting"]
    /\ UNCHANGED <<config_file, backup_file>>
    /\ UNCHANGED outsideConfig

reset_to_defaults ==
    /\ settings' = default_settings
    /\ cfg_last' = [NoConfigCall EXCEPT !.op = "reset_to_defaults"]
    /\ UNCHANGED <<config_file, backup_file>>
    /\ UNCHANGED outsideConfig

backup_settings ==
    /\ backup_file' = JsonFile(settings)
    /\ cfg_last' = [NoConfigCall EXCEPT !.op = "backup_settings", !.ret = TRUE]
    /\ UNCHANGED <<settings, config_file>>
    /\ UNCHANGED outsideConfig

restore_from_backup ==
    /\ settings' = IF backup_file.kind = "json"
                   THEN Update(settings, Validated(JsonDict(backup_file)))
                   ELSE settings
    /\ cfg_last' = [NoConfigCall EXCEPT !.op = "restore_from_backup",
                                        !.ret = (backup_file.kind = "json")]
    /\ UNCHANGED <<config_file, backup_file>>
    /\ UNCHANGED outsideConfig

NextConfig ==
    \/ ConfigManager_init
    \/ load_settings
    \/ \E arg \in SettingsMaps : save_settings(TRUE, arg)
    \/ save_settings(FALSE, EmptyDict)
    \/ \E key \in InputKeys : \E value \in InputValues[key] : set_setting(key, value)
    \/ reset_to_defaults
    \/ backup_settings
    \/ restore_from_backup

(***************************************************************************)
(* Recording and RecordingDatabase.  A datetime is a number of seconds, its *)
(* isoformat() text the pair <<date, time of day>>, which SQLite compares   *)
(* as text, date first.  A duration is a number of sixths of a second, so   *)
(* that the average of up to three durations is exact.  The settings dict   *)
(* of a Recording is written as its repr, the stored column as JSON text.   *)
(* The database file is taken to be readable and writable.                  *)
(***************************************************************************)
SecondsPerDay == 86400

RecordingIds == {"R1", "R2", "R3"}

\* the durations (1.0, 2.0 and 3.0 seconds) and languages of the recordings
\* the model adds, and the pairs of them it uses
Durations == {6, 12, 18}

Languages == {"", "en", "fr"}

DurationsAndLanguages ==
    {<<6, "en">>, <<12, "en">>, <<18, "fr">>, <<6, "">>, <<12, "fr">>}

\* datetime.isoformat() and datetime.fromisoformat()
isoformat(t) == <<t \div SecondsPerDay, t % SecondsPerDay>>

fromisoformat(text) == text[1] * SecondsPerDay + text[2]

\* the comparison that also holds of equal strings
IsoLessOrEqual(a, b) == a[1] < b[1] \/ (a[1] = b[1] /\ a[2] <= b[2])

\* text comparison of two isoformat() strings
IsoLess(a, b) == a[1] < b[1] \/ (a[1] = b[1] /\ a[2] < b[2])

\* json.dumps(self.settings) and json.loads(data['settings'])
settings_dumps(dict) ==
    CASE dict = "{'task': 'translate'}" -> "{\"task\": \"translate\"}"
      [] OTHER -> "{}"

settings_loads(text) ==
    CASE text = "{\"task\": \"translate\"}" -> "{'task': 'translate'}"
      [] OTHER -> "{}"

\* the fields the model does not vary, by id
FixedFields(id) ==
    CASE id = "R1" -> [filename |-> "r1.wav", transcription |-> "hello", model_used |-> "base",
                       file_size |-> 1024, settings |-> "{}"]
      [] id = "R2" -> [filename |-> "r2.wav", transcription |-> "", model_used |-> "small",
                       file_size |-> 0, settings |-> "{'task': 'translate'}"]
      [] OTHER     -> [filename |-> "r3.wav", transcription |-> "bonjour", model_used |-> "",
                       file_size |-> 2048, settings |-> "{}"]

\* Recording(id, timestamp, ...)
Recording(id, timestamp, duration, language) ==
    [id |-> id, timestamp |-> timestamp, filename |-> FixedFields(id).filename,
     transcription |-> FixedFields(id).transcription, duration |-> duration,
     language |-> language, model_used |-> FixedFields(id).model_used,
     file_size |-> FixedFields(id).file_size, settings |-> FixedFields(id).settings]

NoRecording == Recording("none", 0, 0, "")

to_dict(recording) ==
    [recording EXCEPT !.timestamp = isoformat(recording.timestamp),
                      !.settings = settings_dumps(recording.settings)]

from_dict(data) ==
    [data EXCEPT !.timestamp = fromisoformat(data.timestamp),
                 !.settings = IF data.settings # "" THEN settings_loads(data.settings)
                                                   ELSE "{}"]

\* SELECT * FROM recordings WHERE id = ?
RowsWithId(table, id) == {row \in table : row.id = id}

\* get_recording as a function of the table
GetRecording(table, id) ==
    IF RowsWithId(table, id) # {}
    THEN from_dict(CHOOSE row \in RowsWithId(table, id) : TRUE)
    ELSE NoRecording

RECURSIVE SumDuration(_)
SumDuration(rows) ==
    IF rows = {} THEN 0
    ELSE LET row == CHOOSE r \in rows : TRUE
         IN  row.duration + SumDuration(rows \ {row})

\* the empty language counted like any other
CountedLanguageAny(language) == TRUE

\* WHERE language IS NOT NULL AND language != ''
CountedLanguage(language) == language # ""

\* the dict get_statistics returns (the fields the model keeps)
Statistics(table) ==
    LET counted == {row.language : row \in {r \in table : CountedLanguage(r.language)}}
    IN  [total_recordings |-> Cardinality(table),
         total_duration   |-> SumDuration(table),
         avg_duration     |-> IF table = {} THEN 0
                              ELSE SumDuration(table) \div Cardinality(table),
         languages        |-> [l \in counted |->
                                  Cardinality({row \in table : row.language = l})]]

NoStatistics == Statistics({})

NoDatabaseCall ==
    [op |-> "none", id |-> "none", rec |-> NoRecording, ret |-> FALSE,
     got |-> NoRecording, stats |-> NoStatistics, deleted |-> 0, days |-> 0]

\* _init_database on a new file: the table exists and is empty
InitDatabase ==
    /\ recordings = {}
    /\ db_last = NoDatabaseCall

\* the database as the other specifications leave it
InitDatabaseIdle == InitDatabase /\ now = 0

\* INSERT into a table whose id column is no key
add_recording_without_key(recording) ==
    LET data == to_dict(recording)
    IN  /\ recordings' = recordings \cup {data}
        /\ db_last' = [NoDatabaseCall EXCEPT !.op = "add_recording", !.id = recording.id,
                                             !.rec = recording, !.ret = TRUE]
        /\ UNCHANGED now
        /\ UNCHANGED outsideDatabase

\* INSERT fails on a row with the same primary key
add_recording(recording) ==
    LET data == to_dict(recording)
        ok   == RowsWithId(recordings, data.id) = {}
    IN  /\ recordings' = IF ok THEN recordings \cup {data} ELSE recordings
        /\ db_last' = [NoDatabaseCall EXCEPT !.op = "add_recording", !.id = recording.id,
                                             !.rec = recording, !.ret = ok]
        /\ UNCHANGED now
        /\ UNCHANGED outsideDatabase

get_recording(recording_id) ==
    /\ db_last' = [NoDatabaseCall EXCEPT !.op = "get_recording", !.id = recording_id,
                                         !.got = GetRecording(recordings, recording_id)]
    /\ UNCHANGED <<recordings, now>>
    /\ UNCHANGED outsideDatabase

\* UPDATE ... WHERE id = ?: true whether or not a row matched
update_recording(recording) ==
    LET data == to_dict(recording)
    IN  /\ recordings' = (recordings \ RowsWithId(recordings, data.id))
                            \cup {data : row \in RowsWithId(recordings, data.id)}
        /\ db_last' = [NoDatabaseCall EXCEPT !.op = "update_recording", !.id = recording.id,
                                             !.rec = recording, !.ret = TRUE]
        /\ UNCHANGED now
        /\ UNCHANGED outsideDatabase

\* the row count not looked at
delete_recording_always_true(recording_id) ==
    /\ recordings' = recordings \ RowsWithId(recordings, recording_id)
    /\ db_last' = [NoDatabaseCall EXCEPT !.op = "delete_recording", !.id = recording_id,
                                         !.ret = TRUE]
    /\ UNCHANGED now
    /\ UNCHANGED outsideDatabase

\* DELETE ... WHERE id = ?: cursor.rowcount > 0
delete_recording(recording_id) ==
    /\ recordings' = recordings \ RowsWithId(recordings, recording_id)
    /\ db_last' = [NoDatabaseCall EXCEPT !.op = "delete_recording", !.id = recording_id,
                                         !.ret = (RowsWithId(recordings, recording_id) # {})]
    /\ UNCHANGED now
    /\ UNCHANGED outsideDatabase

delete_all_recordings ==
    /\ recordings' = {}
    /\ db_last' = [NoDatabaseCall EXCEPT !.op = "delete_all_recordings", !.ret = TRUE]
    /\ UNCHANGED now
    /\ UNCHANGED outsideDatabase

get_statistics ==
    /\ db_last' = [NoDatabaseCall EXCEPT !.op = "get_statistics", !.ret = TRUE,
                                         !.stats = Statistics(recordings)]
    /\ UNCHANGED <<recordings, now>>
    /\ UNCHANGED outsideDatabase

\* the cutoff taken from the current time instead of from midnight
CutoffFromNow(days) == now - days * SecondsPerDay

\* datetime.now().replace(hour=0, minute=0, second=0, microsecond=0) - timedelta(days)
Cutoff(days) == (now - (now % SecondsPerDay)) - days * SecondsPerDay

\* DELETE FROM recordings WHERE timestamp < ?
cleanup_old_recordings(days) ==
    LET old == {row \in recordings : IsoLess(row.timestamp, isoformat(Cutoff(days)))}
    IN  /\ recordings' = recordings \ old
        /\ db_last' = [NoDatabaseCall EXCEPT !.op = "cleanup_old_recordings",
                                             !.ret = TRUE, !.deleted = Cardinality(old),
                                             !.days = days]
        /\ UNCHANGED now
        /\ UNCHANGED outsideDatabase

\* SpecDatabase: rows added, fetched, updated and deleted, and the statistics
NextDatabase ==
    \/ \E id \in RecordingIds, dl \in DurationsAndLanguages :
          \/ add_recording(Recording(id, now, dl[1], dl[2]))
          \/ update_recording(Recording(id, now, dl[1], dl[2]))
    \/ \E id \in RecordingIds : get_recording(id) \/ delete_recording(id)
    \/ delete_all_recordings
    \/ get_statistics

\* the times of day cleanup_old_recordings is called at, and the day
TimesOfDay == {0, 1, 43200, 86399}

Today == 400

\* how long before now the recordings of SpecCleanup were made
Ages == {29 * SecondsPerDay, 30 * SecondsPerDay, 30 * SecondsPerDay + 1,
         31 * SecondsPerDay}

Noon == Today * SecondsPerDay + 43200

InitCleanup ==
    /\ InitDatabase
    /\ now \in {Today * SecondsPerDay + s : s \in TimesOfDay}

\* SpecCleanup: recordings of several ages, then cleanup_old_recordings(30)
NextCleanup ==
    \/ \E id \in {"R1", "R2"}, age \in Ages : add_recording(Recording(id, now - age, 6, "en"))
    \/ \E id \in {"R1", "R2"} : get_recording(id)
    \/ cleanup_old_recordings(30)

\* the days cleanup_old_recordings is called with in SpecIds
CleanupDays == {29, 30, 31}

\* SpecIds: rows of several ages added, updated, deleted and cleaned up
NextIds ==
    \/ \E id \in {"R1", "R2"}, age \in Ages, dl \in {<<6, "en">>, <<12, "fr">>} :
          \/ add_recording(Recording(id, now - age, dl[1], dl[2]))
          \/ update_recording(Recording(id, now - age, dl[1], dl[2]))
    \/ \E id \in {"R1", "R2"} : delete_recording(id)
    \/ \E days \in CleanupDays : cleanup_old_recordings(days)

(***************************************************************************)
(* copy_to_clipboard of the two main windows.  The two differ only in the   *)
(* toolkit used as last resort.  Which of pyperclip and win32clipboard can  *)
(* be imported is fixed; which mechanisms raise when called is chosen call  *)
(* by call.  A mechanism that raises is taken to leave the clipboard as it  *)
(* was.                                                                     *)
(***************************************************************************)
Toolkits == {"tkinter", "PyQt6"}

Mechanisms == {"pyperclip", "win32clipboard", "toolkit"}

Texts == {"hello", "bonjour"}

\* the module-level try / except ImportError around the two imports
CLIPBOARD_AVAILABLE == pyperclip_importable \/ win32clipboard_importable

NotCopied == [ret |-> FALSE, via |-> "none"]

\* what copy_to_clipboard returns and through which mechanism, when the
\* mechanisms in raising raise on being called
CopyResult(raising) ==
    IF ~CLIPBOARD_AVAILABLE
    THEN NotCopied
    ELSE IF pyperclip_importable
         THEN IF "pyperclip" \in raising
              THEN NotCopied
              ELSE [ret |-> TRUE, via |-> "pyperclip"]
         ELSE IF win32clipboard_importable
              THEN IF "win32clipboard" \in raising
                   THEN NotCopied
                   ELSE [ret |-> TRUE, via |-> "win32clipboard"]
              ELSE IF "toolkit" \in raising
                   THEN NotCopied
                   ELSE [ret |-> TRUE, via |-> "toolkit"]

NoClipboardCall ==
    [op |-> "none", ui |-> "none", text |-> "", raising |-> {}, ret |-> FALSE,
     via |-> "none"]

InitClipboard ==
    /\ pyperclip_importable \in BOOLEAN
    /\ win32clipboard_importable \in BOOLEAN
    /\ clipboard = ""
    /\ clip_last = NoClipboardCall

\* the clipboard as the other specifications leave it
InitClipboardIdle == InitClipboard /\ pyperclip_importable /\ win32clipboard_importable

copy_to_clipboard(ui, text, raising) ==
    /\ clipboard' = IF CopyResult(raising).ret THEN text ELSE clipboard
    /\ clip_last' = [op |-> "copy_to_clipboard", ui |-> ui, text |-> text,
                     raising |-> raising, ret |-> CopyResult(raising).ret,
                     via |-> CopyResult(raising).via]
    /\ UNCHANGED <<pyperclip_importable, win32clipboard_importable>>
    /\ UNCHANGED outsideClipboard

NextClipboard ==
    \E ui \in Toolkits, text \in Texts, raising \in SUBSET Mechanisms :
        copy_to_clipboard(ui, text, raising)

(***************************************************************************)
(* The themed main window: its transcription worker and its batch queue.    *)
(* Its slots run on the UI thread, one queued event at a time: the worker's *)
(* finished and error signals reach their slots in the order they were      *)
(* connected, and a QTimer.singleShot(0, ...) goes to the back of the       *)
(* queue.  The worker's run is one step that ends in finished or error; the *)
(* service it calls is loaded and stays so.  The recording hotkey's         *)
(* callback is the window's toggle_recording itself, so it runs on the      *)
(* hotkey listener's thread, interleaved with the UI thread.  The window's  *)
(* audio recorder is the AudioRecorder above, its hotkey manager the        *)
(* GlobalHotkeyManager above.  Message boxes are not followed.              *)
(***************************************************************************)
MaxFiles == 3

MaxDrops == 2

\* close requests followed
MaxCloses == 2

\* the files of the drop-th request, in the order they were dropped
DroppedFiles(drop) ==
    [i \in 1..MaxFiles |-> "file-" \o ToString(drop) \o "-" \o ToString(i)]

Ready == "Ready to record"

NoWorker == [audio_path |-> "", thread |-> 0]

NoEvent == [slot |-> "none", text |-> ""]

HotkeyThreadIdle == [pc |-> "idle", audio_path |-> ""]

\* check_model_readiness's reading of the service
model_ready == model # NoModel /\ ~is_loading /\ ~is_transcribing

\* OpenSuperWhisperGUI.__init__, once the model is loaded
InitWindowFields ==
    /\ transcription_queue = <<>>
    /\ current_transcription_index = 0
    /\ status_label = Ready
    /\ window_is_transcribing = FALSE
    /\ window_is_recording = FALSE
    /\ transcription_worker = NoWorker
    /\ transcription_threads = <<>>
    /\ threads_started = 0
    /\ worker_log = <<>>
    /\ hotkey_thread = HotkeyThreadIdle
    /\ events = <<>>
    /\ drops = 0
    /\ uuids = 0
    /\ window_visible = TRUE
    /\ really_close = FALSE
    /\ model_check_timer = "active"
    /\ record_button_enabled = TRUE
    /\ close_event = "none"
    /\ close_events = 0
    /\ app_quit = FALSE

\* ... with the tray icon set up by setup_system_tray
InitWindow == InitWindowFields /\ tray_icon_visible = TRUE

\* the QThreads that are running
ThreadsRunning == DOMAIN transcription_threads

\* cleanup_transcription_thread's teardown: the thread the window refers to,
\* if it is running, is quit, waited for and terminated if the wait lapses
TornDownOf(worker, threads) ==
    [t \in (DOMAIN threads) \ {worker.thread} |-> threads[t]]

TornDown(threads) == TornDownOf(transcription_worker, threads)

\* QThread() ... transcription_thread.start() in start_transcription
WithNewThread(threads) ==
    [t \in (DOMAIN threads) \cup {threads_started + 1} |->
        IF t = threads_started + 1 THEN "running" ELSE threads[t]]

\* the record of a worker made for audio_path on a new thread
Logged(audio_path) ==
    Append(worker_log, [audio_path |-> audio_path, thread |-> threads_started + 1,
                        reported |-> FALSE])

\* the record of thread t's worker once it has emitted finished or error
Reported(t) ==
    [i \in DOMAIN worker_log |->
        IF worker_log[i].thread = t THEN [worker_log[i] EXCEPT !.reported = TRUE]
        ELSE worker_log[i]]

\* start_transcription(audio_path) run in one piece on the UI thread, given
\* the label it finds: the window's is_transcribing flag, label, worker and
\* threads afterwards
StartTranscription(audio_path, label) ==
    IF window_is_transcribing
    THEN [flag |-> TRUE, label |-> label, worker |-> transcription_worker,
          threads |-> transcription_threads, started |-> threads_started,
          log |-> worker_log]
    ELSE IF ~model_ready
         THEN [flag |-> FALSE, label |-> Ready, worker |-> transcription_worker,
               threads |-> transcription_threads, started |-> threads_started,
               log |-> worker_log]
         ELSE [flag |-> TRUE, label |-> "Transcribing...",
               worker |-> [audio_path |-> audio_path, thread |-> threads_started + 1],
               threads |-> WithNewThread(TornDown(transcription_threads)),
               started |-> threads_started + 1,
               log |-> Logged(audio_path)]

\* transcribe_next_in_queue, given the queue and index it finds
TranscribeNextInQueue(queue, index) ==
    IF index < Len(queue)
    THEN LET started == StartTranscription(queue[index + 1], "Transcribing n/N...")
         IN  [queue |-> queue, index |-> index, flag |-> started.flag,
              label |-> started.label, worker |-> started.worker,
              threads |-> started.threads, started |-> started.started,
              log |-> started.log]
    ELSE [queue |-> <<>>, index |-> 0, flag |-> window_is_transcribing,
          label |-> Ready, worker |-> transcription_worker,
          threads |-> transcription_threads, started |-> threads_started,
          log |-> worker_log]

\* a user action is allowed while the model has drops left
MayDrop == drops < MaxDrops

\* the window's fields around closing and the tray
closeVars == <<window_visible, tray_icon_visible, really_close, model_check_timer, record_button_enabled,
               close_event, close_events, app_quit>>

\* what the transcription slots and requests of the window leave alone
WindowFrame ==
    /\ UNCHANGED outsideWindow
    /\ UNCHANGED <<recorderVars, hotkeyVars, closeVars>>
    /\ UNCHANGED <<recordings, now, db_last, clipboardVars>>

\* what the recording requests of the window leave alone
RecordingFrame ==
    /\ UNCHANGED outsideWindow
    /\ UNCHANGED <<hotkeyVars, closeVars>>
    /\ UNCHANGED <<recordings, now, db_last, clipboardVars>>

transcribe_multiple_files(n) ==
    LET next == TranscribeNextInQueue(SubSeq(DroppedFiles(drops + 1), 1, n), 0)
    IN  /\ MayDrop
        /\ model_ready
        /\ drops' = drops + 1
        /\ transcription_queue' = next.queue
        /\ current_transcription_index' = next.index
        /\ window_is_transcribing' = next.flag
        /\ status_label' = next.label
        /\ transcription_worker' = next.worker
        /\ transcription_threads' = next.threads
        /\ threads_started' = next.started
        /\ worker_log' = next.log
        /\ UNCHANGED <<events, uuids, window_is_recording, hotkey_thread>>
        /\ WindowFrame

\* a single dropped file, or one chosen in transcribe_file's dialog
transcribe_dropped_file(file_path) ==
    LET started == StartTranscription(file_path, status_label)
    IN  /\ MayDrop
        /\ model_ready
        /\ drops' = drops + 1
        /\ window_is_transcribing' = started.flag
        /\ status_label' = started.label
        /\ transcription_worker' = started.worker
        /\ transcription_threads' = started.threads
        /\ threads_started' = started.started
        /\ worker_log' = started.log
        /\ UNCHANGED <<transcription_queue, current_transcription_index, events, uuids,
                       window_is_recording, hotkey_thread>>
        /\ WindowFrame

\* the window's start_recording, from the button or the hotkey, with the
\* audio recorder's start_recording inside it; opens says whether the input
\* stream can be opened
window_start_recording(opens) ==
    /\ MayDrop
    /\ ~window_is_recording
    /\ hotkey_thread.pc = "idle"
    /\ model_ready
    /\ ~window_is_transcribing
    /\ drops' = drops + 1
    /\ StartRecordingToReturn(opens)
    /\ window_is_recording' = (ar_last'.ret = 1)
    /\ status_label' = IF ar_last'.ret = 1 THEN "Recording..." ELSE status_label
    /\ UNCHANGED <<transcription_queue, current_transcription_index,
                   window_is_transcribing, transcription_worker, transcription_threads,
                   threads_started, worker_log, hotkey_thread, events, uuids>>
    /\ RecordingFrame

\* the stream's callback while the window records
window_audio_callback ==
    /\ window_is_recording
    /\ audio_callback(CHUNK_SIZE)

\* the window's stop_recording, given what start_transcription does when it
\* is reached
StopRecording(started) ==
    /\ StopRecordingCall
    /\ window_is_recording' = FALSE
    /\ IF ReturnsPath
       THEN /\ window_is_transcribing' = started.flag
            /\ status_label' = started.label
            /\ transcription_worker' = started.worker
            /\ transcription_threads' = started.threads
            /\ threads_started' = started.started
            /\ worker_log' = started.log
       ELSE /\ status_label' = Ready
            /\ UNCHANGED <<window_is_transcribing, transcription_worker,
                           transcription_threads, threads_started, worker_log>>

\* the window's stop_recording from the button, on the UI thread
window_stop_recording ==
    /\ window_is_recording
    /\ hotkey_thread.pc = "idle"
    /\ StopRecording(StartTranscription("recording.wav", Ready))
    /\ UNCHANGED <<transcription_queue, current_transcription_index, events,
                   hotkey_thread, drops, uuids>>
    /\ RecordingFrame

\* the recording hotkey pressed while recording: toggle_recording runs
\* stop_recording on the listener's thread, up to start_transcription's two
\* checks
hotkey_stop_recording ==
    /\ window_is_recording
    /\ hotkey_thread.pc = "idle"
    /\ StopRecordingCall
    /\ window_is_recording' = FALSE
    /\ hotkey_thread' =
          IF ReturnsPath /\ ~window_is_transcribing /\ model_ready
          THEN [pc |-> "checked", audio_path |-> "recording.wav"]
          ELSE HotkeyThreadIdle
    /\ status_label' = IF ReturnsPath /\ window_is_transcribing THEN status_label ELSE Ready
    /\ UNCHANGED <<transcription_queue, current_transcription_index,
                   window_is_transcribing, transcription_worker, transcription_threads,
                   threads_started, worker_log, events, drops, uuids>>
    /\ RecordingFrame

\* ... its call of cleanup_transcription_thread
hotkey_start_transcription_cleanup ==
    /\ hotkey_thread.pc = "checked"
    /\ hotkey_thread' = [hotkey_thread EXCEPT !.pc = "cleaned"]
    /\ window_is_transcribing' = FALSE
    /\ transcription_threads' = TornDown(transcription_threads)
    /\ transcription_worker' = NoWorker
    /\ UNCHANGED <<transcription_queue, current_transcription_index, status_label,
                   window_is_recording, threads_started, worker_log, events, drops, uuids>>
    /\ WindowFrame

\* ... and the rest of start_transcription: the flag, the label, the new
\* thread and worker
hotkey_start_transcription_create ==
    /\ hotkey_thread.pc = "cleaned"
    /\ hotkey_thread' = HotkeyThreadIdle
    /\ window_is_transcribing' = TRUE
    /\ status_label' = "Transcribing..."
    /\ transcription_worker' = [audio_path |-> hotkey_thread.audio_path,
                                thread |-> threads_started + 1]
    /\ transcription_threads' = WithNewThread(transcription_threads)
    /\ threads_started' = threads_started + 1
    /\ worker_log' = Logged(hotkey_thread.audio_path)
    /\ UNCHANGED <<transcription_queue, current_transcription_index,
                   window_is_recording, events, drops, uuids>>
    /\ WindowFrame

\* TranscriptionWorker.run on its thread: finished.emit(text) or error.emit(str(e))
TranscriptionWorker_run(t, ok) ==
    /\ t \in ThreadsRunning
    /\ transcription_threads[t] = "running"
    /\ transcription_threads' = [transcription_threads EXCEPT ![t] = "emitted"]
    /\ worker_log' = Reported(t)
    /\ events' = events \o
          (IF ok THEN <<[slot |-> "on_transcription_finished", text |-> "hello"],
                        [slot |-> "cleanup_transcription_thread", text |-> ""]>>
                 ELSE <<[slot |-> "on_transcription_error", text |-> "error"],
                        [slot |-> "cleanup_transcription_thread", text |-> ""]>>)
    /\ UNCHANGED <<transcription_queue, current_transcription_index, status_label,
                   window_is_transcribing, window_is_recording, transcription_worker,
                   threads_started, hotkey_thread, drops, uuids>>
    /\ WindowFrame

NextEvent == IF events # <<>> THEN Head(events) ELSE NoEvent

\* copies the text, stores a Recording and queues _update_ui_after_transcription
on_transcription_finished ==
    LET text      == NextEvent.text
        recording == [id |-> "uuid-" \o ToString(uuids + 1), timestamp |-> now,
                      filename |-> "", transcription |-> text, duration |-> 0,
                      language |-> "auto", model_used |-> "", file_size |-> 0,
                      settings |-> "{}"]
    IN  /\ NextEvent.slot = "on_transcription_finished"
        /\ clipboard' = IF CopyResult({}).ret THEN text ELSE clipboard
        /\ clip_last' = [op |-> "copy_to_clipboard", ui |-> "PyQt6", text |-> text,
                         raising |-> {}, ret |-> CopyResult({}).ret,
                         via |-> CopyResult({}).via]
        /\ recordings' = recordings \cup {to_dict(recording)}
        /\ db_last' = [NoDatabaseCall EXCEPT !.op = "add_recording", !.id = recording.id,
                                             !.rec = recording, !.ret = TRUE]
        /\ uuids' = uuids + 1
        /\ events' = Append(Tail(events),
                            [slot |-> "_update_ui_after_transcription", text |-> text])
        /\ UNCHANGED <<transcription_queue, current_transcription_index, status_label,
                       window_is_transcribing, window_is_recording, transcription_worker,
                       transcription_threads, threads_started, worker_log, hotkey_thread, drops>>
        /\ UNCHANGED <<now, pyperclip_importable, win32clipboard_importable>>
        /\ UNCHANGED outsideWindow
        /\ UNCHANGED <<recorderVars, hotkeyVars, closeVars>>

cleanup_transcription_thread ==
    /\ NextEvent.slot = "cleanup_transcription_thread"
    /\ window_is_transcribing' = FALSE
    /\ transcription_threads' = TornDown(transcription_threads)
    /\ transcription_worker' = NoWorker
    /\ events' = Tail(events)
    /\ UNCHANGED <<transcription_queue, current_transcription_index, status_label,
                   window_is_recording, threads_started, worker_log, hotkey_thread, drops, uuids>>
    /\ WindowFrame

update_ui_after_transcription ==
    LET next == TranscribeNextInQueue(transcription_queue,
                                      current_transcription_index + 1)
    IN  /\ NextEvent.slot = "_update_ui_after_transcription"
        /\ events' = Tail(events)
        /\ IF transcription_queue # <<>>
           THEN /\ transcription_queue' = next.queue
                /\ current_transcription_index' = next.index
                /\ window_is_transcribing' = next.flag
                /\ status_label' = next.label
                /\ transcription_worker' = next.worker
                /\ transcription_threads' = next.threads
                /\ threads_started' = next.started
                /\ worker_log' = next.log
           ELSE /\ status_label' = Ready
                /\ UNCHANGED <<transcription_queue, current_transcription_index,
                               window_is_transcribing, transcription_worker,
                               transcription_threads, threads_started, worker_log>>
        /\ UNCHANGED <<window_is_recording, hotkey_thread, drops, uuids>>
        /\ WindowFrame

on_transcription_error ==
    /\ NextEvent.slot = "on_transcription_error"
    /\ events' = Append(Tail(events),
                        [slot |-> "_show_transcription_error", text |-> NextEvent.text])
    /\ UNCHANGED <<transcription_queue, current_transcription_index, status_label,
                   window_is_transcribing, window_is_recording, transcription_worker,
                   transcription_threads, threads_started, worker_log, hotkey_thread, drops, uuids>>
    /\ WindowFrame

show_transcription_error ==
    /\ NextEvent.slot = "_show_transcription_error"
    /\ events' = Tail(events)
    /\ status_label' = Ready
    /\ UNCHANGED <<transcription_queue, current_transcription_index,
                   window_is_transcribing, window_is_recording, transcription_worker,
                   transcription_threads, threads_started, worker_log, hotkey_thread, drops, uuids>>
    /\ WindowFrame

\* self.record_button.setEnabled(not self.is_transcribing)
RecordButtonWhenReady == ~window_is_transcribing

\* the one-second timer: check_model_readiness reads the service and
\* update_ui_for_model_state sets the label and the record button.  With
\* the model ready the label goes back to ready unless a recording or a
\* transcription is under way.
check_model_readiness ==
    /\ model_check_timer = "active"
    /\ status_label' =
          IF is_loading THEN "Loading model..."
          ELSE IF model_ready
               THEN IF ~window_is_recording /\ ~window_is_transcribing
                    THEN Ready ELSE status_label
               ELSE "Model not available"
    /\ record_button_enabled' =
          IF is_loading THEN FALSE
          ELSE IF model_ready THEN RecordButtonWhenReady ELSE FALSE
    /\ UNCHANGED <<transcription_queue, current_transcription_index,
                   window_is_transcribing, window_is_recording, transcription_worker,
                   transcription_threads, threads_started, worker_log, hotkey_thread, events,
                   drops, uuids>>
    /\ UNCHANGED <<window_visible, tray_icon_visible, really_close, model_check_timer,
                   close_event, close_events, app_quit>>
    /\ UNCHANGED outsideWindow
    /\ UNCHANGED <<recorderVars, hotkeyVars>>
    /\ UNCHANGED <<recordings, now, db_last, clipboardVars>>

\* the close is only a hide: the tray icon is shown and Exit was not chosen
HidesToTrayAlways(exit_chosen) == tray_icon_visible

HidesToTray(exit_chosen) == tray_icon_visible /\ ~exit_chosen

\* closeEvent, with _really_close as it is when the event arrives.  A close
\* that is a hide ignores the event.  Otherwise everything is torn down and
\* the event accepted: stop_recording may start a transcription, which the
\* next statement tears down again; once the recording is stopped the audio
\* recorder's cleanup has nothing left to cancel.
CloseEvent(exit_chosen) ==
    LET started == StartTranscription("recording.wav", Ready)
        saved   == window_is_recording /\ ReturnsPath
        flag    == IF saved THEN started.flag ELSE window_is_transcribing
        worker  == IF saved THEN started.worker ELSE transcription_worker
        threads == IF saved THEN started.threads ELSE transcription_threads
    IN  /\ close_events < MaxCloses
        /\ hotkey_thread.pc = "idle"
        /\ close_events' = close_events + 1
        /\ window_visible' = FALSE
        /\ IF HidesToTray(exit_chosen)
           THEN /\ close_event' = "ignored"
                /\ UNCHANGED <<window_is_recording, status_label, window_is_transcribing,
                               transcription_worker, transcription_threads,
                               threads_started, worker_log, model_check_timer, record_button_enabled, tray_icon_visible>>
                /\ UNCHANGED <<recorderVars, hotkeyVars>>
           ELSE /\ close_event' = "accepted"
                /\ IF window_is_recording THEN StopRecordingCall ELSE RecorderCleanup
                /\ window_is_recording' = FALSE
                /\ status_label' = IF ~window_is_recording THEN status_label
                                   ELSE IF saved THEN started.label ELSE Ready
                /\ threads_started' = IF saved THEN started.started ELSE threads_started
                /\ worker_log' = IF saved THEN started.log ELSE worker_log
                /\ window_is_transcribing' = FALSE
                /\ transcription_worker' = IF flag THEN NoWorker ELSE worker
                /\ transcription_threads' = IF flag THEN TornDownOf(worker, threads)
                                            ELSE threads
                /\ model_check_timer' = "stopped"
                /\ UNCHANGED record_button_enabled
                /\ tray_icon_visible' = FALSE
                /\ StopListeningCall("cleanup")
        /\ UNCHANGED <<transcription_queue, current_transcription_index, hotkey_thread,
                       events, drops, uuids>>
        /\ UNCHANGED outsideWindow
        /\ UNCHANGED <<recordings, now, db_last, clipboardVars>>

\* the user closes the window (the title bar's button, Alt+F4)
closeEvent ==
    /\ window_visible
    /\ CloseEvent(really_close)
    /\ UNCHANGED <<really_close, app_quit>>

\* Exit in the tray menu: _really_close = True; self.close(); QApplication.quit()
quit_application ==
    /\ tray_icon_visible
    /\ really_close' = TRUE
    /\ CloseEvent(TRUE)
    /\ app_quit' = TRUE

\* show_window, hide_window and toggle_window_visibility: the tray menu, a
\* double click on the tray icon, the window hotkey
set_window_visible(visible) ==
    /\ window_visible # visible
    /\ window_visible' = visible
    /\ UNCHANGED <<tray_icon_visible, really_close, model_check_timer, record_button_enabled, close_event,
                   close_events, app_quit>>
    /\ UNCHANGED <<transcription_queue, current_transcription_index, status_label,
                   window_is_transcribing, window_is_recording, transcription_worker,
                   transcription_threads, threads_started, worker_log, hotkey_thread, events,
                   drops, uuids>>
    /\ UNCHANGED outsideWindow
    /\ UNCHANGED <<recorderVars, hotkeyVars>>
    /\ UNCHANGED <<recordings, now, db_last, clipboardVars>>

\* the slots of the UI thread's event loop and the worker's run
NextSlots ==
    \/ \E t \in 1..threads_started, ok \in BOOLEAN : TranscriptionWorker_run(t, ok)
    \/ on_transcription_finished
    \/ cleanup_transcription_thread
    \/ update_ui_after_transcription
    \/ on_transcription_error
    \/ show_transcription_error
    \/ check_model_readiness

NextWindow ==
    \/ \E n \in 2..MaxFiles : transcribe_multiple_files(n)
    \/ transcribe_dropped_file("single")
    \/ NextSlots

\* the worker's lifetime under every kind of request, the recording hotkey
\* included
NextWorkers ==
    \/ \E n \in 2..MaxFiles : transcribe_multiple_files(n)
    \/ transcribe_dropped_file("single")
    \/ \E opens \in BOOLEAN : window_start_recording(opens)
    \/ window_audio_callback
    \/ window_stop_recording
    \/ hotkey_stop_recording
    \/ hotkey_start_transcription_cleanup
    \/ hotkey_start_transcription_create
    \/ NextSlots

\* closing, hiding and leaving, with a recording or a transcription under way
NextClose ==
    \/ ~app_quit /\ closeEvent
    \/ ~app_quit /\ quit_application
    \/ ~app_quit /\ \E visible \in BOOLEAN : set_window_visible(visible)
    \/ ~app_quit /\ window_start_recording(TRUE)
    \/ ~app_quit /\ window_audio_callback
    \/ ~app_quit /\ window_stop_recording
    \/ ~app_quit /\ transcribe_dropped_file("single")
    \/ ~app_quit /\ \E ok \in BOOLEAN : TranscriptionWorker_run(threads_started, ok)
    \/ ~app_quit /\ on_transcription_finished
    \/ ~app_quit /\ cleanup_transcription_thread
    \/ ~app_quit /\ update_ui_after_transcription
    \/ ~app_quit /\ on_transcription_error
    \/ ~app_quit /\ show_transcription_error
    \/ ~app_quit /\ check_model_readiness

(***************************************************************************)
(* The service once its default model is loaded (the state the initial     *)
(* load thread leaves when load_model succeeds).                           *)
(***************************************************************************)
ServiceReady ==
    /\ model \in {[name |-> "base", device |-> d] : d \in Devices}
    /\ model_name = "base"
    /\ device = model.device
    /\ is_loading = FALSE
    /\ is_transcribing = FALSE
    /\ progress = 0
    /\ transcription_lock = 0
    /\ transcription_count = 0
    /\ callbacks_set = FALSE
    /\ kind = [t \in Callers |-> "none"]
    /\ tpc = [t \in Callers |-> "idle"]
    /\ outcome = [t \in Callers |-> "none"]
    /\ fired = [t \in Callers |-> 0]
    /\ inFlightAtIssue = [t \in Callers |-> FALSE]
    /\ invModel = [t \in Callers |-> NoModel]
    /\ lpc = [l \in Loads |-> IF l = 1 THEN "done" ELSE "unused"]
    /\ lreq = [l \in Loads |-> NoModel]
    /\ lerr = [l \in Loads |-> 0]
    /\ ts_last = NoCall

InitReady ==
    /\ ServiceReady
    /\ InitRecorderIdle
    /\ InitChunkIdle
    /\ InitHotkeysIdle
    /\ InitConfigIdle
    /\ InitDatabaseIdle /\ InitClipboardIdle /\ InitWindow /\ InitOpenIdle /\ InitPlayback /\ InitApplyIdle

(***************************************************************************)
(* _apply_settings of the lightweight main window, called with the model   *)
(* and device keys of the settings dialog.  It runs on the UI thread; the   *)
(* transcriptions and the model loads go on in their own threads.           *)
(***************************************************************************)
\* repr() of a Python string
repr(text) == "'" \o text \o "'"

\* the dicts the settings dialog hands over
NewSettings == [model : {repr(n) : n \in ModelNames}, device : {repr(d) : d \in Devices}]

\* the name or device a settings value stands for
NamedBy(value, names) == CHOOSE n \in names : repr(n) = value

\* the fields of the service a change call works on, and the load threads
\* the calls made so far have started
ServiceNow == [model |-> model, model_name |-> model_name, device |-> device, started |-> 0]

\* change_model on those fields, its return value ignored by the caller
ChangeModelOn(svc, name) ==
    IF ChangeRefused \/ (name = svc.model_name /\ svc.model # NoModel)
    THEN svc
    ELSE [svc EXCEPT !.model_name = name, !.model = NoModel, !.started = @ + 1]

\* change_device on those fields, its return value ignored by the caller
ChangeDeviceOn(svc, dev) ==
    IF ChangeRefused \/ (dev = svc.device /\ svc.model # NoModel)
    THEN svc
    ELSE [svc EXCEPT !.device = dev, !.model = NoModel, !.started = @ + 1]

UnusedLoads == {l \in Loads : lpc[l] = "unused"}

\* the first n unused load threads started
StartLoadThreads(n) ==
    lpc' = [l \in Loads |->
               IF lpc[l] = "unused" /\ Cardinality({k \in UnusedLoads : k < l}) < n
               THEN "started" ELSE lpc[l]]

\* if model != self.transcription_service.model_name: change_model(model), and
\* the same for the device
AfterChanges(new) ==
    LET name == NamedBy(new.model, ModelNames)
        dev  == NamedBy(new.device, Devices)
        s1   == IF name # model_name THEN ChangeModelOn(ServiceNow, name) ELSE ServiceNow
    IN  IF dev # s1.device THEN ChangeDeviceOn(s1, dev) ELSE s1

\* self.settings.update(new_settings); the two change calls; save_settings
apply_settings(new) ==
    /\ AfterChanges(new).started <= Cardinality(UnusedLoads)
    /\ app_settings' = Update(app_settings, new)
    /\ model' = AfterChanges(new).model
    /\ model_name' = AfterChanges(new).model_name
    /\ device' = AfterChanges(new).device
    /\ StartLoadThreads(AfterChanges(new).started)
    /\ settings' = Update(settings, Validated(app_settings'))
    /\ config_file' = JsonFile(settings')
    /\ cfg_last' = [op |-> "save_settings", given |-> TRUE, arg |-> app_settings', ret |-> TRUE]
    /\ UNCHANGED <<is_loading, is_transcribing, progress, transcription_lock,
                   transcription_count, callbacks_set, callerVars, lreq, lerr, ts_last>>
    /\ UNCHANGED backup_file
    /\ UNCHANGED <<recorderVars, chunkVars, hotkeyVars, databaseVars, clipboardVars,
                   windowVars, openVars, playbackVars>>

\* SpecApply: the lightweight UI's transcriptions, the load threads and
\* _apply_settings
NextApply ==
    \/ \E t \in Callers : IssueCall(t, "sync") \/ CallSteps(t)
    \/ LoadStep
    \/ SetupCallbacks
    \/ \E new \in NewSettings : apply_settings(new)

(***************************************************************************)
(* Specifications.                                                         *)
(*   Spec       the whole service: calls through every entry point, load   *)
(*              threads, model and device changes, cancellation            *)
(*   SpecEntry  a loaded service used as the lightweight UI uses it: each  *)
(*              call is a thread running TranscribeAudioSync, which runs   *)
(*              TranscribeAudioAsync on an event loop of its own           *)
(*   SpecCalls  a loaded service used through every entry point, with      *)
(*              cancellation                                               *)
(*   SpecSwap   one caller of the public entry points against load         *)
(*              threads and model / device changes                         *)
(***************************************************************************)
Init ==
    /\ InitTS /\ InitRecorderIdle /\ InitChunkIdle
    /\ InitHotkeysIdle /\ InitConfigIdle /\ InitDatabaseIdle
    /\ InitClipboardIdle /\ InitWindow /\ InitOpenIdle /\ InitPlayback /\ InitApplyIdle

Next ==
    \/ \E t \in Callers : (\E k \in Kinds : IssueCall(t, k)) \/ CallSteps(t)
    \/ LoadStep
    \/ ChangeCall
    \/ cancel_transcription
    \/ SetupCallbacks

Spec == Init /\ [][Next]_vars

NextEntry ==
    \/ \E t \in Callers : IssueCall(t, "sync") \/ CallSteps(t)
    \/ SetupCallbacks

SpecEntry == InitReady /\ [][NextEntry]_vars

NextCalls ==
    \/ \E t \in Callers : (\E k \in Kinds : IssueCall(t, k)) \/ CallSteps(t)
    \/ cancel_transcription
    \/ SetupCallbacks

SpecCalls == InitReady /\ [][NextCalls]_vars

NextSwap ==
    \/ (\E k \in {"async", "sync"} : IssueCall(1, k)) \/ CallSteps(1)
    \/ LoadStep
    \/ ChangeCall
    \/ cancel_transcription
    \/ SetupCallbacks

SpecSwap == Init /\ [][NextSwap]_vars

\* the service as the recorder specifications leave it
ServiceIdle == InitTS /\ device = "cpu"

\* SpecApply: a loaded service and a store that holds the defaults
InitApplySpec ==
    /\ ServiceReady /\ device = "cpu"
    /\ InitRecorderIdle /\ InitChunkIdle /\ InitHotkeysIdle
    /\ InitConfig /\ config_file = JsonFile(default_settings) /\ backup_file = NoFile
    /\ InitDatabaseIdle /\ InitClipboardIdle /\ InitWindow /\ InitOpenIdle
    /\ InitPlayback /\ InitApplyIdle

SpecApply == InitApplySpec /\ [][NextApply]_vars

\* SpecRecorder: the Audio Capture Engine on either backend
InitRecorderSpec ==
    /\ ServiceIdle /\ InitRecorder /\ InitChunkIdle
    /\ InitHotkeysIdle /\ InitConfigIdle /\ InitDatabaseIdle
    /\ InitClipboardIdle /\ InitWindow /\ InitOpenIdle /\ InitPlayback /\ InitApplyIdle

SpecRecorder == InitRecorderSpec /\ [][NextRecorder]_vars

\* SpecChunk: one chunk of every length, channel count and rate through the
\* per-chunk processing
InitChunkSpec ==
    /\ ServiceIdle /\ InitRecorderIdle /\ InitChunk
    /\ InitHotkeysIdle /\ InitConfigIdle /\ InitDatabaseIdle
    /\ InitClipboardIdle /\ InitWindow /\ InitOpenIdle /\ InitPlayback /\ InitApplyIdle

NextChunk == ProcessChunk

SpecChunk == InitChunkSpec /\ [][NextChunk]_vars

\* SpecOpen: the capture thread of the read-loop interface opening its stream
InitOpenSpec ==
    /\ ServiceIdle /\ InitRecorderIdle /\ InitChunkIdle
    /\ InitHotkeysIdle /\ InitConfigIdle /\ InitDatabaseIdle /\ InitClipboardIdle
    /\ InitWindow /\ InitOpen /\ InitPlayback /\ InitApplyIdle

SpecOpen == InitOpenSpec /\ [][NextOpen]_vars

\* SpecPlayback: playback on either backend, nothing else going on
InitPlaybackSpec ==
    /\ ServiceIdle /\ InitRecorder /\ InitChunkIdle
    /\ InitHotkeysIdle /\ InitConfigIdle /\ InitDatabaseIdle /\ InitClipboardIdle
    /\ InitWindow /\ InitOpenIdle /\ InitPlayback /\ InitApplyIdle

SpecPlayback == InitPlaybackSpec /\ [][NextPlayback]_vars

\* SpecHotkeys: the hotkey manager, with and without the hook facility
InitHotkeysSpec ==
    /\ ServiceIdle /\ InitRecorderIdle /\ InitChunkIdle
    /\ InitHotkeys /\ InitConfigIdle /\ InitDatabaseIdle
    /\ InitClipboardIdle /\ InitWindow /\ InitOpenIdle /\ InitPlayback /\ InitApplyIdle

SpecHotkeys == InitHotkeysSpec /\ [][NextHotkeys]_vars

\* SpecKeys: key lists of one token put to a manager with the hook facility
InitKeysSpec ==
    /\ ServiceIdle /\ InitRecorderIdle /\ InitChunkIdle
    /\ InitHotkeys /\ PYNPUT_AVAILABLE /\ InitConfigIdle /\ InitDatabaseIdle
    /\ InitClipboardIdle /\ InitWindow /\ InitOpenIdle /\ InitPlayback /\ InitApplyIdle

SpecKeys == InitKeysSpec /\ [][NextKeys]_vars

\* SpecConfig: the Configuration Store over whatever file it finds
InitConfigSpec ==
    /\ ServiceIdle /\ InitRecorderIdle /\ InitChunkIdle
    /\ InitHotkeysIdle /\ InitConfig /\ InitDatabaseIdle
    /\ InitClipboardIdle /\ InitWindow /\ InitOpenIdle /\ InitPlayback /\ InitApplyIdle

SpecConfig == InitConfigSpec /\ [][NextConfig]_vars

\* SpecDatabase and SpecCleanup: the Recordings Database on a new file
InitDatabaseSpec ==
    /\ ServiceIdle /\ InitRecorderIdle /\ InitChunkIdle
    /\ InitHotkeysIdle /\ InitConfigIdle /\ InitDatabase /\ now = Noon
    /\ InitClipboardIdle /\ InitWindow /\ InitOpenIdle /\ InitPlayback /\ InitApplyIdle

SpecDatabase == InitDatabaseSpec /\ [][NextDatabase]_vars

InitCleanupSpec ==
    /\ ServiceIdle /\ InitRecorderIdle /\ InitChunkIdle
    /\ InitHotkeysIdle /\ InitConfigIdle /\ InitCleanup
    /\ InitClipboardIdle /\ InitWindow /\ InitOpenIdle /\ InitPlayback /\ InitApplyIdle

SpecCleanup == InitCleanupSpec /\ [][NextCleanup]_vars

SpecIds == InitCleanupSpec /\ [][NextIds]_vars

\* SpecClipboard: copy_to_clipboard under every combination of importable
\* and raising mechanisms
InitClipboardSpec ==
    /\ ServiceIdle /\ InitRecorderIdle /\ InitChunkIdle
    /\ InitHotkeysIdle /\ InitConfigIdle /\ InitDatabaseIdle /\ InitClipboard
    /\ InitWindow /\ InitOpenIdle /\ InitPlayback /\ InitApplyIdle

SpecClipboard == InitClipboardSpec /\ [][NextClipboard]_vars

\* SpecWindow: the themed main window with a loaded model, files dropped on
\* it singly and in batches
InitWindowSpec == InitReady /\ device = "cpu"

SpecWindow == InitWindowSpec /\ [][NextWindow]_vars

\* SpecWorkers: the same window under every kind of request: drops, batches,
\* the record button and the recording hotkey
InitWorkersSpec == InitReady /\ device = "cpu" /\ drops = 0

SpecWorkers == InitWorkersSpec /\ [][NextWorkers]_vars

\* the table once setup_hotkeys has bound the recording and the window hotkey
TableAfterSetup ==
    [n \in HotkeyNames |->
        CASE n = "toggle_recording" -> [DefaultHotkey("r") EXCEPT !.callback = 1]
          [] n = "quick_transcribe" -> DefaultHotkey("t")
          [] n = "show_window"      -> [DefaultHotkey("w") EXCEPT !.callback = 2]
          [] OTHER                  -> NoHotkey]

\* the manager with its callbacks bound and no listener yet
InitListen ==
    /\ PYNPUT_AVAILABLE = TRUE
    /\ hotkeys = TableAfterSetup
    /\ hotkey_order = DefaultOrder
    /\ listener_mapping = NoMapping
    /\ listener = 0
    /\ is_running = FALSE
    /\ listeners_created = 0
    /\ listeners_stopped = 0
    /\ listeners_running = {}
    /\ sl_pc = [t \in Starters |-> "idle"]
    /\ hk_last = NoHotkeyCall

\* the hotkey manager as setup_hotkeys leaves it where the hook facility is
\* there: the recording and the window hotkey bound, the listener running
InitHotkeysListening ==
    /\ PYNPUT_AVAILABLE = TRUE
    /\ hotkeys = TableAfterSetup
    /\ hotkey_order = DefaultOrder
    /\ listener_mapping = HotkeyMapping
    /\ listener = 1
    /\ is_running = TRUE
    /\ listeners_created = 1
    /\ listeners_stopped = 0
    /\ listeners_running = {1}
    /\ sl_pc = [t \in Starters |-> "idle"]
    /\ hk_last = [NoHotkeyCall EXCEPT !.op = "start_listening", !.ret = TRUE]

\* SpecListen: start_listening from several threads on that manager
InitListenSpec ==
    /\ ServiceIdle /\ InitRecorderIdle /\ InitChunkIdle
    /\ InitListen /\ InitConfigIdle /\ InitDatabaseIdle
    /\ InitClipboardIdle /\ InitWindow /\ InitOpenIdle /\ InitPlayback /\ InitApplyIdle

SpecListen == InitListenSpec /\ [][NextListen]_vars

\* SpecClose: the window of a running application, shown, its listener and
\* its poll timer running, with or without a tray icon
InitCloseSpec ==
    /\ ServiceReady /\ device = "cpu"
    /\ InitRecorderIdle /\ InitChunkIdle /\ InitHotkeysListening
    /\ InitConfigIdle /\ InitDatabaseIdle /\ InitClipboardIdle
    /\ InitWindowFields /\ tray_icon_visible \in BOOLEAN /\ InitOpenIdle /\ InitPlayback /\ InitApplyIdle

SpecClose == InitCloseSpec /\ [][NextClose]_vars

(***************************************************************************)
(* Properties of the Transcription Service.                                *)
(***************************************************************************)
\* call t is blocked on the transcription lock
WaitsOnLock(t) == tpc[t] = "acquire" /\ transcription_lock # 0

\* call t was accepted: it passed the entry checks of transcribe_audio_async
Accepted(t) == kind[t] \in {"async", "sync"} /\ outcome[t] \in {"ok", "error"}

\* C1: a call to TranscribeAudioAsync / TranscribeAudioSync issued while an
\* earlier call is in flight is rejected at once with "Already transcribing"
\* (it never gets past the entry checks, so it never waits on the lock), and
\* every accepted call fires its completion or error callback exactly once.
C1_SecondCallRejectedNotQueued ==
    /\ \A t \in Callers :
          inFlightAtIssue[t] =>
              /\ tpc[t] \in {"async_check", "done"}
              /\ tpc[t] = "done" => outcome[t] = "already"
              /\ ~WaitsOnLock(t)
    /\ \A t \in Callers :
          /\ fired[t] <= 1
          /\ (tpc[t] = "done" /\ Accepted(t)) => fired[t] = 1

\* C2: at most one thread is inside the model invocation of _transcribe_sync,
\* whichever entry point it came through.
C2_AtMostOneInvocation ==
    Cardinality({t \in Callers : tpc[t] = "invoking"}) <= 1

\* C2 witness: one call is inside the model invocation while another one,
\* which also got past its entry check, stands at the lock.
C2_Witness ==
    \E t, u \in Callers : t # u /\ tpc[t] = "invoking" /\ tpc[u] = "acquire"

\* C3: ChangeModel / ChangeDevice called while is_transcribing is true returns
\* false, starts no load thread and leaves model, model_name, device and
\* is_loading as they were.
C3_SwapRefusedWhileTranscribing ==
    [][ (is_transcribing /\ ChangeCall) =>
            /\ ts_last'.op \in {"change_model", "change_device"}
            /\ ts_last'.ret = FALSE
            /\ UNCHANGED <<model, model_name, device, is_loading, lpc>> ]_vars

\* C3 witness: a ChangeModel was refused while a transcription held a loaded model.
C3_Witness ==
    /\ ts_last = [op |-> "change_model", ret |-> FALSE]
    /\ is_transcribing
    /\ model # NoModel
    /\ \E t \in Callers : tpc[t] = "invoking"

\* some load thread is inside load_model
LoadRunning == \E l \in Loads : lpc[l] = "loading"

\* C4: a TranscribeAudioAsync / TranscribeAudioSync request made while a model
\* load is in progress is rejected and starts no model invocation.  (Stated
\* for the loads that are inside load_model, the least the claim covers.)
C4_RejectedWhileLoading ==
    [][ \A t \in Callers :
          (LoadRunning /\ tpc[t] = "idle" /\ tpc'[t] # "idle" /\ kind'[t] \in {"async", "sync"}) =>
              (tpc'[t] = "done" /\ outcome'[t] \in {"already", "nomodel"}) ]_vars

\* call t leaves transcribe_audio_async through its finally clause
Finishes(t) == tpc[t] = "finally" /\ tpc'[t] = "done"

\* C5 as written: when an accepted call finishes, is_transcribing is false and
\* progress is zero.
C5_FlagAndProgressCleared ==
    [][ \A t \in Callers : Finishes(t) => (is_transcribing' = FALSE /\ progress' = 0) ]_vars

\* C5 amended: when an accepted call finishes, whether it returned or raised,
\* the cleanup sets is_transcribing to false and leaves progress alone; the
\* success path has set progress to 1 before the completion callback.
C5_FlagClearedProgressKept ==
    [][ \A t \in Callers :
          /\ Finishes(t) => (is_transcribing' = FALSE /\ progress' = progress)
          /\ (tpc[t] = "ret_ok" /\ tpc'[t] = "finally") => progress' = 1 ]_vars

\* C5 witness: a successful call has finished; the flag is clear and the
\* progress stands at 1.
C5_Witness ==
    /\ \E t \in Callers : tpc[t] = "done" /\ kind[t] \in {"async", "sync"} /\ outcome[t] = "ok"
    /\ is_transcribing = FALSE
    /\ progress = 1

\* C6: a load thread ends with is_loading false and either a model present or
\* the model absent and the error callback fired exactly once for that load.
C6_LoadEndsReadyOrReported ==
    [][ \A l \in Loads :
          (lpc[l] = "finally" /\ lpc'[l] = "done") =>
              /\ is_loading' = FALSE
              /\ (model' # NoModel \/ lerr'[l] = 1) ]_vars

(***************************************************************************)
(* Properties of the Audio Capture Engine.                                 *)
(***************************************************************************)
\* C7: StopRecording on an active recording returns the file path and writes
\* the WAV file exactly when the buffer holds 8000 samples or more (half a
\* second at 16000 Hz); with fewer, zero included, it returns absent, writes
\* nothing and no file is at the temporary path.
C7_StopWritesIffHalfSecond ==
    [][ (is_recording /\ stop_recording) =>
            IF audio_data >= 8000
            THEN /\ ar_last' = [op |-> "stop_recording", ret |-> current_recording_path]
                 /\ current_recording_path # 0
                 /\ <<current_recording_path, audio_data>> \in files'
            ELSE /\ ar_last' = [op |-> "stop_recording", ret |-> 0]
                 /\ files' = files
                 /\ \A f \in files' : f[1] # current_recording_path ]_vars

\* C7 witness: a recording of exactly 8000 samples was stopped and its file
\* written and returned.
C7_Witness ==
    /\ ar_last.op = "stop_recording"
    /\ ar_last.ret # 0
    /\ <<ar_last.ret, 8000>> \in files

\* C8: StartRecording while already recording returns false and leaves
\* is_recording, the buffer, the temporary path and the stream or capture
\* thread as they were.
C8_StartRejectedWhileRecording ==
    [][ (is_recording /\ \E d \in DeviceArgs, o \in BOOLEAN : start_recording(d, o)) =>
            /\ ar_last' = [op |-> "start_recording", ret |-> 0]
            /\ UNCHANGED <<is_recording, audio_data, current_recording_path, audio_stream,
                           recording_thread, rpc, recordings_started>> ]_vars

\* C8 witness: a StartRecording was refused in the middle of a recording that
\* has samples in its buffer.
C8_Witness ==
    /\ ar_last = [op |-> "start_recording", ret |-> 0]
    /\ is_recording
    /\ audio_stream = "open"
    /\ audio_data > 0
    /\ current_recording_path # 0

\* the attempt to open an input stream for the recording being started has failed
OpenFailed ==
    /\ audio_stream # "open"
    /\ audio_backend = "pyaudio" => rpc[current_recording_path] \in {"cleanup", "dead"}

\* C9: on either backend, a StartRecording whose input stream could not be
\* opened returns false with is_recording false; it never returns true.
\* (Stated for the calls that return after the open has failed.)
C9_FalseWhenNoStreamOpened ==
    [][ (ar_pc = "starting" /\ ar_pc' = "idle" /\ OpenFailed) =>
            (ar_last'.ret = 0 /\ ~is_recording') ]_vars

(***************************************************************************)
(* Properties of the per-chunk processing.                                 *)
(***************************************************************************)
\* n * 16000 / r rounded to the nearest integer
RoundedQuotient(n, r) == (2 * n * 16000 + r) \div (2 * r)

ValidToken(key) == lower_strip(key) \in (DOMAIN key_mapping) \cup SingleAlnum

CanonicalToken(key) ==
    IF lower_strip(key) \in DOMAIN key_mapping
    THEN key_mapping[lower_strip(key)]
    ELSE lower_strip(key)

AllTokensValid(keys) == \A i \in 1..Len(keys) : ValidToken(keys[i])

Stored(name, keys, callback) ==
    [registered |-> TRUE, keys |-> [i \in 1..Len(keys) |-> CanonicalToken(keys[i])],
     callback |-> callback, enabled |-> TRUE]

RegisterStep == hk_last'.op = "register_hotkey" /\ hotkeyVars' # hotkeyVars

\* C11: register_hotkey is all-or-nothing: a key list with a token that fails
\* normalization returns false and leaves the table as it was; a key list
\* whose tokens are all valid returns true and stores the canonical tokens
\* under the name.
C11_RegisterAllOrNothing ==
    [][RegisterStep =>
        IF AllTokensValid(hk_last'.keys)
        THEN /\ hk_last'.ret
             /\ hotkeys' = [hotkeys EXCEPT ![hk_last'.name] =
                               Stored(hk_last'.name, hk_last'.keys, hk_last'.callback)]
        ELSE /\ ~hk_last'.ret
             /\ hotkeys' = hotkeys]_vars

\* C11 as the code has it: the above when the hook facility is available and
\* the key list is not empty; without the facility, or with an empty list,
\* register_hotkey returns false and leaves the table as it was.
C11_RegisterAllOrNothingWhenAvailable ==
    [][RegisterStep =>
        IF PYNPUT_AVAILABLE /\ hk_last'.keys # <<>> /\ AllTokensValid(hk_last'.keys)
        THEN /\ hk_last'.ret
             /\ hotkeys' = [hotkeys EXCEPT ![hk_last'.name] =
                               Stored(hk_last'.name, hk_last'.keys, hk_last'.callback)]
        ELSE /\ ~hk_last'.ret
             /\ hotkeys' = hotkeys]_vars

\* a registration with an unknown token was refused over an entry that had
\* been registered, rebound and disabled before
C11_Witness ==
    /\ PYNPUT_AVAILABLE
    /\ hk_last = [op |-> "register_hotkey", name |-> "custom",
                  keys |-> <<"ctrl", "foo">>, callback |-> 2, ret |-> FALSE]
    /\ hotkeys["custom"] = [registered |-> TRUE, keys |-> <<"ctrl", "shift", "r">>,
                            callback |-> 1, enabled |-> FALSE]

ManagerIdle == ~is_running /\ listener = 0

ManagerListening == is_running /\ listener # 0

C13_NeverListensWhenUnavailable ==
    ~PYNPUT_AVAILABLE =>
        /\ ~is_running
        /\ listener = 0
        /\ listeners_created = 0
        /\ hk_last.op = "start_listening" => ~hk_last.ret

\* start_listening was refused although an enabled registration has a callback
C13_Witness ==
    /\ ~PYNPUT_AVAILABLE
    /\ hk_last.op = "start_listening"
    /\ HotkeyMappingNonEmpty

(***************************************************************************)
(* Properties of the Configuration Store.                                  *)
(***************************************************************************)
\* a fresh store is constructed right after save_settings(map) returned, for
\* a map whose keys are all in the schema
FreshLoadAfterSave ==
    /\ cfg_last.op = "save_settings"
    /\ cfg_last.given
    /\ cfg_last.ret
    /\ DOMAIN cfg_last.arg \subseteq SchemaKeys
    /\ cfg_last'.op = "init"

\* C14: Save(map) followed by Load on a fresh store gives the map's value on
\* every key of the map and the default on every other key.
C14_RoundTripDefaults ==
    [][FreshLoadAfterSave =>
        \A k \in SchemaKeys :
            settings'[k] = IF k \in DOMAIN cfg_last.arg THEN cfg_last.arg[k]
                                                        ELSE default_settings[k]]_vars

\* C14 as the code has it: on a key the map left out, the fresh store loads
\* what the saving store held in memory, which is the default only if that
\* store had not loaded, set or restored another value.
C14_RoundTripKeepsMemory ==
    [][FreshLoadAfterSave =>
        \A k \in SchemaKeys :
            settings'[k] = IF k \in DOMAIN cfg_last.arg THEN cfg_last.arg[k]
                                                        ELSE settings[k]]_vars

\* a fresh store after Save({model: small}) by a store that held sample rate
\* 44100: it loads the saved model and the 44100
C14_Witness ==
    /\ cfg_last.op = "init"
    /\ cfg_last.given
    /\ DOMAIN cfg_last.arg = {"model"}
    /\ cfg_last.arg["model"] = "'small'"
    /\ settings["model"] = "'small'"
    /\ settings["sample_rate"] = "44100"
    /\ settings["language"] = "'auto'"

\* Save(map) merged the known keys of the map, wrote them and returned true
SaveMergedKnownKeys ==
    (cfg_last.op = "save_settings" /\ cfg_last.given) =>
        /\ cfg_last.ret
        /\ config_file.kind = "json"
        /\ \A k \in (DOMAIN cfg_last.arg) \cap SchemaKeys :
              /\ settings[k] = cfg_last.arg[k]
              /\ config_file.doc[k] = json_dumps(cfg_last.arg[k])

\* C15: neither the in-memory settings nor the persisted document ever holds
\* a key outside the schema, and Save of a map with unknown keys drops them,
\* merges the known keys and returns success.
C15_NoUnknownKeys ==
    /\ DOMAIN settings \subseteq SchemaKeys
    /\ DOMAIN config_file.doc \subseteq SchemaKeys
    /\ SaveMergedKnownKeys

\* C15 as the code has it: the in-memory settings never hold a key outside
\* the schema and every document the store writes holds exactly the schema
\* keys, but a document found with unknown keys keeps them until a Save;
\* Save of a map with unknown keys drops them, merges the known keys and
\* returns success.
C15_NoUnknownKeysWritten ==
    /\ [](DOMAIN settings = SchemaKeys /\ SaveMergedKnownKeys)
    /\ [][config_file' # config_file =>
            (config_file'.kind = "json" /\ DOMAIN config_file'.doc = SchemaKeys)]_vars

\* Save({model: small, bogus_option: 1}) over a document that held
\* bogus_option, after a restore from a backup that holds it too
C15_Witness ==
    /\ cfg_last.op = "save_settings"
    /\ cfg_last.given
    /\ "bogus_option" \in DOMAIN cfg_last.arg
    /\ "model" \in DOMAIN cfg_last.arg
    /\ backup_file = ForeignFile
    /\ "bogus_option" \notin DOMAIN config_file.doc
    /\ DOMAIN settings = SchemaKeys

(***************************************************************************)
(* Properties of the Recordings Database.                                  *)
(***************************************************************************)
\* C16: after a successful add_recording(r), get_recording(r.id) gives a
\* Recording equal to r in every field; delete_recording(id) returns true
\* exactly when a row with that id existed, a second delete of the same id
\* returns false, and get_recording(id) gives nothing afterwards.
C16_AddGetDelete ==
    [][/\ (db_last'.op = "add_recording" /\ db_last'.ret) =>
              GetRecording(recordings', db_last'.id) = db_last'.rec
       /\ (db_last.op = "add_recording" /\ db_last.ret /\ db_last'.op = "get_recording"
                /\ db_last'.id = db_last.id) =>
              db_last'.got = db_last.rec
       /\ db_last'.op = "delete_recording" =>
              /\ db_last'.ret = (\E row \in recordings : row.id = db_last'.id)
              /\ GetRecording(recordings', db_last'.id) = NoRecording
       /\ (db_last.op = "delete_recording" /\ db_last'.op = "delete_recording"
                /\ db_last'.id = db_last.id) =>
              ~db_last'.ret]_vars

\* R2, stored with its timestamp as text and its settings as JSON, was fetched
C16_Witness ==
    /\ db_last.op = "get_recording"
    /\ db_last.got = Recording("R2", Noon, 18, "fr")
    /\ db_last.got.settings = "{'task': 'translate'}"
    /\ \E row \in recordings : row.id = "R2" /\ row.timestamp = <<Today, 43200>>

RowsOfDuration(d) == {row \in recordings : row.duration = d}

RowsOfLanguage(l) == {row \in recordings : row.language = l}

\* the sum of the stored durations, counted duration by duration
TotalDuration ==
    6 * Cardinality(RowsOfDuration(6)) + 12 * Cardinality(RowsOfDuration(12))
        + 18 * Cardinality(RowsOfDuration(18))

\* C17: get_statistics reports the number of stored rows, the sum of their
\* durations, that sum divided by the count, and for each non-empty language
\* the number of rows carrying it.
C17_StatisticsMatchRows ==
    db_last.op = "get_statistics" =>
        /\ db_last.stats.total_recordings = Cardinality({row.id : row \in recordings})
        /\ db_last.stats.total_duration = TotalDuration
        /\ recordings # {} =>
              db_last.stats.avg_duration * Cardinality(recordings) = TotalDuration
        /\ DOMAIN db_last.stats.languages =
              {l \in Languages \ {""} : RowsOfLanguage(l) # {}}
        /\ \A l \in DOMAIN db_last.stats.languages :
              db_last.stats.languages[l] = Cardinality(RowsOfLanguage(l))

\* durations 1, 2, 3 seconds with languages en, en, fr: 3, 6, 2, {en: 2, fr: 1}
C17_Witness ==
    /\ db_last.op = "get_statistics"
    /\ {<<row.duration, row.language>> : row \in recordings}
          = {<<6, "en">>, <<12, "en">>, <<18, "fr">>}
    /\ db_last.stats.total_recordings = 3
    /\ db_last.stats.total_duration = 3 * 12
    /\ db_last.stats.avg_duration = 12
    /\ DOMAIN db_last.stats.languages = {"en", "fr"}
    /\ db_last.stats.languages["en"] = 2
    /\ db_last.stats.languages["fr"] = 1

CleanupStep == db_last'.op = "cleanup_old_recordings" /\ databaseVars' # databaseVars

MadeBefore(row, age) == fromisoformat(row.timestamp) = now - age

\* C18: cleanup_old_recordings(30) deletes the recording made 30 days and 1
\* second before now and keeps the recording made 29 days before now.
C18_DeletesThirtyDaysOneSecond ==
    [][CleanupStep =>
        \A row \in recordings :
            /\ MadeBefore(row, 30 * SecondsPerDay + 1) => row \notin recordings'
            /\ MadeBefore(row, 29 * SecondsPerDay) => row \in recordings']_vars

\* C18 as the code has it: a recording goes exactly when it was made before
\* the midnight that began the day 30 days before today; the recording made
\* 30 days and 1 second before now goes only when now is midnight to the
\* second, and the recording made 29 days before now always stays.
C18_DeletesBeforeMidnightCutoff ==
    [][CleanupStep =>
        \A row \in recordings :
            /\ row \notin recordings' <=>
                  fromisoformat(row.timestamp)
                      < (Today - 30) * SecondsPerDay
            /\ MadeBefore(row, 30 * SecondsPerDay + 1) =>
                  (row \notin recordings' <=> now % SecondsPerDay = 0)
            /\ MadeBefore(row, 29 * SecondsPerDay) => row \in recordings']_vars

\* at noon, cleanup kept the recording made 30 days and 1 second before
C18_Witness ==
    /\ db_last.op = "cleanup_old_recordings"
    /\ now = Noon
    /\ \E row \in recordings : MadeBefore(row, 30 * SecondsPerDay + 1)
    /\ \E row \in recordings : MadeBefore(row, 29 * SecondsPerDay)

(***************************************************************************)
(* Properties of the clipboard chain.                                      *)
(***************************************************************************)
\* a mechanism fails when it is missing or raises on being called
Fails(mechanism, raising) ==
    \/ mechanism \in raising
    \/ mechanism = "pyperclip" /\ ~pyperclip_importable
    \/ mechanism = "win32clipboard" /\ ~win32clipboard_importable

\* the first mechanism of the chain that does not fail
FirstWorking(raising) ==
    IF ~Fails("pyperclip", raising) THEN "pyperclip"
    ELSE IF ~Fails("win32clipboard", raising) THEN "win32clipboard"
    ELSE IF ~Fails("toolkit", raising) THEN "toolkit"
    ELSE "none"

\* C19: copy_to_clipboard goes through its mechanisms in order and stops at
\* the first that neither is missing nor raises; it returns false only when
\* every mechanism failed.
C19_FallsThroughToNextMechanism ==
    clip_last.op = "copy_to_clipboard" =>
        /\ clip_last.via = FirstWorking(clip_last.raising)
        /\ clip_last.ret = (FirstWorking(clip_last.raising) # "none")
        /\ clip_last.ret => clipboard = clip_last.text


(***************************************************************************)
(* The themed main window's batch queue                                     *)
(***************************************************************************)
\* one batch was dropped, nothing else, and it is still being drained
DrainingOneBatch == drops = 1 /\ transcription_queue # <<>>

\* the UI thread handles the end of a transcription: the slot that follows
\* the worker's finished signal, or the one that follows its error signal
CompletionStep ==
    /\ NextEvent.slot \in {"_update_ui_after_transcription", "_show_transcription_error"}
    /\ events' = Tail(events)

\* C20: while one batch of N files is drained, every completed transcription,
\* successful or failed, moves the queue's index on by exactly one, and the
\* N-th completion empties the queue, resets the index and sets the status
\* to ready
C20_IndexAdvancesPerCompletion ==
    [][(DrainingOneBatch /\ CompletionStep) =>
          IF current_transcription_index + 1 < Len(transcription_queue)
          THEN /\ current_transcription_index' = current_transcription_index + 1
               /\ transcription_queue' = transcription_queue
          ELSE /\ transcription_queue' = <<>>
               /\ current_transcription_index' = 0
               /\ status_label' = Ready]_vars


(***************************************************************************)
(* The themed main window's transcription worker                            *)
(***************************************************************************)
\* C21: at most one transcription worker (thread plus worker object) of the
\* themed main window is alive at any time, whatever the sequence of
\* record-stop, file, drop and batch requests, results and errors
C21_AtMostOneWorkerAlive == Cardinality(ThreadsRunning) <= 1


(***************************************************************************)
(* Closing the themed main window                                           *)
(***************************************************************************)
\* a close event is delivered to the window
CloseStep == close_events' = close_events + 1

\* the teardown's marks: the poll timer stopped, the tray icon hidden, the
\* hotkey listener stopped, no recording, no transcription thread referred to
TornDownAfterClose ==
    /\ model_check_timer' = "stopped"
    /\ ~tray_icon_visible'
    /\ ~is_running' /\ listener' = 0
    /\ ~is_recording'
    /\ ~window_is_transcribing' /\ transcription_worker' = NoWorker

\* C22: a close request while the tray icon is shown and Exit has not been
\* chosen only hides the window: the event is refused and the hotkey
\* listener, the audio recorder, the poll timer and the tray icon are left as
\* they are; once Exit has been chosen the close runs the teardown and is
\* accepted
C22_CloseHidesUnlessExit ==
    [][(CloseStep /\ tray_icon_visible) =>
          IF really_close'
          THEN close_event' = "accepted" /\ TornDownAfterClose
          ELSE /\ close_event' = "ignored"
               /\ ~window_visible'
               /\ UNCHANGED <<hotkeyVars, recorderVars, model_check_timer,
                              tray_icon_visible, window_is_transcribing,
                              transcription_threads>>]_vars

\* the window was closed to the tray in the middle of a recording, which goes on
C22_Witness ==
    /\ close_event = "ignored"
    /\ ~window_visible
    /\ tray_icon_visible /\ ~really_close
    /\ is_recording /\ audio_data > 0
    /\ is_running
    /\ model_check_timer = "active"


(***************************************************************************)
(* Model and device changes against a running model invocation             *)
(***************************************************************************)
\* a call is inside the internal transcription step, the model at work
Invoking == \E t \in Callers : tpc[t] = "invoking"

\* C23: while a model invocation is executing inside the internal
\* transcription step, the service's model reference is not cleared or
\* replaced (only change_model, change_device and the load thread they start
\* assign it), in every interleaving
C23_ModelKeptWhileInvoking == [][Invoking => model' = model]_vars


(***************************************************************************)
(* Opening the stream on the read-loop interface                            *)
(***************************************************************************)
\* the first attempt, in the order (a) to (d), that the device accepts; 0 if
\* it refuses all four
FirstAccepted(accepts) ==
    IF \E i \in 1..4 : accepts[i]
    THEN CHOOSE i \in 1..4 : accepts[i] /\ \A j \in 1..(i - 1) : ~accepts[j]
    ELSE 0

\* C24: for every requested device index, the absent one included, the four
\* stream configurations are tried in the order (a) target channels and
\* rate, (b) target channels and native rate, (c) mono and target rate, (d)
\* mono and native rate; the working channel count and rate are those of the
\* first one the device accepts, and the open fails only if all four are
\* refused
C24_FirstAcceptedConfiguration ==
    open_pc = "opened" =>
        LET first == FirstAccepted(open_request.accepts)
        IN  IF first = 0
            THEN ~open_result.stream
            ELSE /\ open_result.stream
                 /\ open_result.tried = [i \in 1..first |-> i]
                 /\ open_result.working = StreamConfigs(open_request.native)[first]


(***************************************************************************)
(* start_recording's fallback to the other backend                          *)
(***************************************************************************)
\* start_recording got past its guard, tried to start and returned False
GaveUp ==
    /\ recordings_started' = recordings_started + 1
    /\ ar_last'.op = "start_recording"
    /\ ar_last'.ret = 0

\* C25: when the preferred backend fails to open a stream and the other
\* backend is present in the runtime, start_recording tries the other one
\* (here: starts the read-loop thread) before it gives up, whichever backend
\* is the preferred one
C25_AlternateTriedBeforeGivingUp ==
    [][(GaveUp /\ AlternatePresent) =>
          rpc'[recordings_started'] = "entry"]_vars

\* C26: a StopRecording that returns a path has, in this order, cleared
\* is_recording and stopped the capture, written the whole buffer to the
\* temporary path StartRecording chose, called the stop callback once, and
\* returned that path, leaving no in-progress path behind; a StopRecording
\* that returns absent does not call the stop callback.
C26_StopOrder ==
    [][ stop_recording =>
          IF ar_last'.ret # 0
          THEN /\ Len(stop_callbacks') = Len(stop_callbacks) + 1
               /\ LET seen == stop_callbacks'[Len(stop_callbacks')]
                  IN  /\ ~seen.is_recording
                      /\ seen.audio_stream = "none"
                      /\ <<current_recording_path, audio_data>> \in seen.files
                      /\ seen.current_recording_path = current_recording_path
               /\ <<current_recording_path, audio_data>> \in files'
               /\ ar_last'.ret = current_recording_path
               /\ ~is_recording'
               /\ current_recording_path' = 0
          ELSE stop_callbacks' = stop_callbacks ]_vars

\* C26 witness: a StopRecording has returned a path after one call of the
\* stop callback, and an earlier or later one has returned absent without.
C26_Witness ==
    /\ ar_last.op = "stop_recording"
    /\ ar_last.ret # 0
    /\ Len(stop_callbacks) = 1
    /\ recordings_started = 2
    /\ current_recording_path = 0

\* a playback that is going on: sounddevice holds a clip, or a pyaudio thread
\* is about to write another chunk
Active(c) ==
    \/ sd_playing = c
    \/ /\ playback_threads[c].pc = "writing"
       /\ playback_threads[c].left > 0
       /\ is_playing

\* the clip of the last play_recording that started one
Newest == plays_started

\* C27: at most one playback is active at a time, and once PlayRecording has
\* started a clip, is_playing turns false only when that clip's playback ends
\* or in StopPlayback (also the one inside the next PlayRecording), never
\* through the end of a playback that was stopped before.
C27_OnePlaybackAtATime ==
    /\ [](Cardinality({c \in Clips : Active(c)}) <= 1)
    /\ [][ (is_playing /\ ~is_playing') =>
              \/ stop_playback
              \/ play_recording_stops
              \/ playback_thread_finally(Newest) ]_vars

\* the registrations that are enabled and bound to a callback
Bound == {n \in HotkeyNames : hotkeys[n].registered /\ hotkeys[n].enabled
                                /\ hotkeys[n].callback # 0}

\* the chord of a registration in the notation of the listener
ChordOf(n) == [i \in 1..Len(hotkeys[n].keys) |-> PynputToken(hotkeys[n].keys[i])]

\* C28: StartListening (hook facility present, not yet listening, nothing
\* raising) fails exactly when no registration is enabled and bound to a
\* callback; when it succeeds the installed mapping sends the chord of every
\* such registration to that registration's callback, function-key chords and
\* shared chords included, and holds no other chord.
C28_ListenerCoversBoundRegistrations ==
    [][ (~HookUnavailable /\ ~is_running /\ start_listening("no")) =>
            /\ hk_last'.ret = (Bound # {})
            /\ hk_last'.ret =>
                  /\ \A n \in Bound :
                        /\ ChordOf(n) \in DOMAIN listener_mapping'
                        /\ listener_mapping'[ChordOf(n)] = hotkeys[n].callback
                  /\ \A ch \in DOMAIN listener_mapping' :
                        \E n \in Bound : ChordOf(n) = ch ]_vars

\* a call that changes the table of registrations
TableStep ==
    \/ \E n \in CalledNames, k \in KeyInputs, c \in Callbacks : register_hotkey(n, k, c)
    \/ \E n \in CalledNames : unregister_hotkey(n) \/ enable_hotkey(n) \/ disable_hotkey(n)
    \/ \E n \in ReboundNames : set_hotkey_callback(n, 1)

\* C29: RegisterHotkey, UnregisterHotkey, EnableHotkey, DisableHotkey and
\* SetHotkeyCallback called while the manager is listening leave the
\* listener, its chord-to-callback mapping and is_running as they were; the
\* installed mapping gets new contents only in a StartListening that finds
\* the manager not listening, that is after a StopListening.
C29_TableCallsLeaveListener ==
    [][ /\ (is_running /\ TableStep) => UNCHANGED <<listener, listener_mapping, is_running>>
        /\ (listener_mapping' # listener_mapping /\ listener_mapping' # NoMapping) =>
               /\ ~is_running
               /\ \E r \in {"no", "start"} : start_listening(r) ]_vars

\* C29 witness: while the manager listens a callback was rebound, and the
\* installed mapping is no longer the one the table would give.
C29_Witness ==
    /\ is_running
    /\ hk_last.op = "set_hotkey_callback"
    /\ hk_last.ret
    /\ listener_mapping # NoMapping
    /\ listener_mapping # HotkeyMapping

\* the synonyms listed for key normalization, each with its canonical token
ListedSynonyms ==
    [k \in {"ctrl", "control", "shift", "alt", "win", "windows", "cmd", "super", "enter",
            "return", "escape", "esc", "delete", "del"} |->
        CASE k \in {"ctrl", "control"} -> "ctrl"
          [] k \in {"win", "windows", "cmd", "super"} -> "cmd"
          [] k \in {"enter", "return"} -> "enter"
          [] k \in {"escape", "esc"} -> "esc"
          [] k \in {"delete", "del"} -> "delete"
          [] OTHER -> k]

FunctionKeys == {"f1", "f2", "f3", "f4", "f5", "f6", "f7", "f8", "f9", "f10", "f11", "f12"}

\* C30: RegisterHotkey of a single token, whatever its case, stores the
\* canonical token of a listed synonym (ctrl/control, shift, alt,
\* win/windows/cmd/super, enter/return, escape/esc, delete/del), stores f1 to
\* f12 and single alphanumeric characters as they are, and refuses every
\* other token.
C30_SynonymsToCanonical ==
    (hk_last.op = "register_hotkey" /\ Len(hk_last.keys) = 1) =>
        LET token == lower_strip(hk_last.keys[1])
        IN  CASE token \in DOMAIN ListedSynonyms ->
                     /\ hk_last.ret
                     /\ hotkeys[hk_last.name].keys = <<ListedSynonyms[token]>>
              [] token \in FunctionKeys \cup SingleAlnum ->
                     /\ hk_last.ret
                     /\ hotkeys[hk_last.name].keys = <<token>>
              [] OTHER -> ~hk_last.ret

\* the batches the window can have accepted
Batches == 1..MaxDrops

\* the workers made so far for the file at position k of batch d
WorkersFor(d, k) == {i \in DOMAIN worker_log : worker_log[i].audio_path = DroppedFiles(d)[k]}

\* the thread of the i-th worker is transcribing
Transcribing(i) ==
    /\ worker_log[i].thread \in ThreadsRunning
    /\ transcription_threads[worker_log[i].thread] = "running"

\* C31: in a batch the worker for the file at position k+1 is made only after
\* a worker for position k has reported its end, and no two files of one
\* batch are being transcribed at the same time.
C31_NextOnlyAfterPreviousReported ==
    \A d \in Batches :
        /\ \A k \in 2..MaxFiles : \A j \in WorkersFor(d, k) :
               \E i \in WorkersFor(d, k - 1) : i < j /\ worker_log[i].reported
        /\ \A k1, k2 \in 1..MaxFiles : \A i \in WorkersFor(d, k1), j \in WorkersFor(d, k2) :
               (Transcribing(i) /\ Transcribing(j)) => i = j

\* a transcription is in flight: the service or the window says so (the
\* window until the worker's end has been dealt with), or a worker's thread
\* is transcribing
TranscriptionInFlight ==
    \/ is_transcribing
    \/ window_is_transcribing
    \/ \E t \in ThreadsRunning : transcription_threads[t] = "running"

\* C32: after a poll of the service the record button is enabled exactly when
\* a model is loaded, no load is in progress and no transcription is in
\* flight; and the window's start_recording gets as far as the audio recorder
\* only with the model ready and no transcription in flight.
C32_ButtonAndRecordingFollowReadiness ==
    [][ /\ check_model_readiness =>
              (record_button_enabled' <=> (model # NoModel /\ ~is_loading /\ ~TranscriptionInFlight))
        /\ (\E opens \in BOOLEAN : window_start_recording(opens)) =>
              (model_ready /\ ~TranscriptionInFlight) ]_vars


(***************************************************************************)
(* C33.  The id column is the primary key of the recordings table.          *)
(***************************************************************************)
StoredIds(table) == {row.id : row \in table}

UniqueIds == \A r1, r2 \in recordings : r1.id = r2.id => r1 = r2

AddStep == db_last'.op = "add_recording" /\ databaseVars' # databaseVars

UpdateStep == db_last'.op = "update_recording" /\ databaseVars' # databaseVars

\* C33: no two rows of the table have the same id; add_recording with an id
\* that is stored returns false and leaves the table as it was; and
\* update_recording never brings an id into the table.
C33_IdsUniqueAndImmutable ==
    /\ []UniqueIds
    /\ [][/\ (AddStep /\ db_last'.id \in StoredIds(recordings)) =>
               (~db_last'.ret /\ recordings' = recordings)
           /\ (UpdateStep => StoredIds(recordings') = StoredIds(recordings))]_vars

\* add_recording was refused for an id stored with other fields
C33_Witness ==
    /\ db_last.op = "add_recording"
    /\ ~db_last.ret
    /\ RowsWithId(recordings, db_last.id) # {}
    /\ to_dict(db_last.rec) \notin recordings
    /\ Cardinality(recordings) = 2


(***************************************************************************)
(* C34.  cleanup_old_recordings(days) against the midnight cutoff.          *)
(***************************************************************************)
MidnightToday == now - (now % SecondsPerDay)

\* C34: cleanup_old_recordings(days) deletes exactly the rows whose timestamp
\* is before midnight of today minus days days, returns how many they were,
\* and keeps every other row as it was, the row made at the cutoff included.
C34_DeletesExactlyBeforeCutoff ==
    [][CleanupStep =>
        LET cutoff == MidnightToday - db_last'.days * SecondsPerDay
        IN  /\ recordings' = {row \in recordings : fromisoformat(row.timestamp) >= cutoff}
            /\ db_last'.deleted = Cardinality(recordings \ recordings')]_vars

\* cleanup deleted one row and kept the row made at the cutoff
C34_Witness ==
    /\ db_last.op = "cleanup_old_recordings"
    /\ db_last.deleted = 1
    /\ \E row \in recordings :
          fromisoformat(row.timestamp) = MidnightToday - db_last.days * SecondsPerDay


(***************************************************************************)
(* C35.  Load threads started while an earlier load thread runs.            *)
(***************************************************************************)
AllLoadsFinished == \A l \in Loads : lpc[l] \in {"unused", "done"}

LatestLoaded == model # NoModel => model = [name |-> model_name, device |-> device]

LoadingWhileAnyLoads == (\E l \in Loads : lpc[l] = "loading") => is_loading

\* C35: once every load thread has finished, a model that is loaded is the
\* one of the model_name and device requested last; and is_loading is true
\* while a load thread is inside load_model.
C35_LatestRequestWins ==
    /\ AllLoadsFinished => LatestLoaded
    /\ LoadingWhileAnyLoads


(***************************************************************************)
(* C36 and C37.  The capture thread of the read-loop backend.               *)
(***************************************************************************)
StartReturnedTrue ==
    /\ audio_backend = "pyaudio"
    /\ ar_pc = "idle"
    /\ ar_last = [op |-> "start_recording", ret |-> 1]

\* C36: with the read-loop backend, from the return of a start_recording
\* that returned true until stop_recording or cancel_recording is called,
\* the capture thread of the recording has not left its try block and
\* is_recording stays true.
C36_ThreadReadsUntilStopped ==
    StartReturnedTrue =>
        /\ rpc[recordings_started] \notin {"cleanup", "dead"}
        /\ is_recording

\* the capture thread of recording m, not yet run when stop_recording or
\* cancel_recording gave up waiting for it, goes on to execute
LeftBehindRuns(m) == rpc[m] = "entry" /\ rpc'[m] # "entry" /\ m < recordings_started'

\* C37: once stop_recording or cancel_recording has returned and a later
\* start_recording has begun, the capture thread of the earlier recording
\* executes none of its statements: it neither appends to the buffer nor
\* assigns self._audio_stream or self.is_recording.
C37_EarlierThreadGone ==
    [][\A m \in Recordings : ~LeftBehindRuns(m)]_vars


(***************************************************************************)
(* C38.  One listener at a time.                                            *)
(***************************************************************************)
\* C38: at most one GlobalHotKeys listener is running at any time, and a
\* listener that is running is the one self.listener refers to, so that
\* stop_listening can stop it; start_listening while is_running is set
\* creates no listener.
C38_OneReachableListener ==
    /\ Cardinality(listeners_running) <= 1
    /\ listeners_running \subseteq {listener}


(***************************************************************************)
(* C39.  The files of a batch and the workers they are handed to.           *)
(***************************************************************************)
\* C39: a file of a batch is handed to at most one worker, and the file at
\* a position of a batch is handed to a worker only after the file at the
\* position before it in the same batch has been handed to one.
C39_EachFileOnceInQueueOrder ==
    \A d \in Batches, k \in 1..MaxFiles :
        /\ Cardinality(WorkersFor(d, k)) <= 1
        /\ (k > 1 /\ WorkersFor(d, k) # {}) =>
              \E i \in WorkersFor(d, k - 1) : \A j \in WorkersFor(d, k) : i < j


(***************************************************************************)
(* C40.  The settings and the service after _apply_settings.                *)
(***************************************************************************)
ApplyStep == cfg_last'.op = "save_settings" /\ <<tsVars, configVars, applyVars>>' # <<tsVars, configVars, applyVars>>

\* C40: when _apply_settings has run, the model and the device in the
\* window's settings and in the settings file are the service's model_name
\* and device.
C40_SettingsMatchService ==
    [][ApplyStep =>
          /\ app_settings'.model = repr(model_name')
          /\ app_settings'.device = repr(device')
          /\ json_loads(config_file'.doc["model"]) = repr(model_name')
          /\ json_loads(config_file'.doc["device"]) = repr(device')]_vars

====
